---- MODULE Spec2Model ----
(***************************************************************************)
(* Model of the ReMidt Renovasjon integration.                             *)
(*                                                                         *)
(*   api.py          RenovasjonApiClient: _request, get_disposals,         *)
(*                   get_disposals_by_fraction, WasteDisposal.from_dict    *)
(*   coordinator.py  RenovasjonData (the snapshot and its queries) and     *)
(*                   RenovasjonCoordinator._async_update_data              *)
(*                                                                         *)
(*   config_flow.py  RenovasjonConfigFlow (the setup and reconfigure       *)
(*                   wizards) and RenovasjonOptionsFlow                    *)
(*   sensor.py, binary_sensor.py   the entities' properties                *)
(*                                                                         *)
(* The specifications share the variables:                                 *)
(*   SpecClient  one remote answer, the client's calls applied to it       *)
(*   SpecSearch  one answer of the search endpoint, the client's calls     *)
(*   SpecUrl     search_address called with any query text                 *)
(*   Spec        a coordinator refreshing again and again against a        *)
(*               remote service that may answer anything, while the wall   *)
(*               clock advances                                            *)
(*   SpecOverlap refreshes of one coordinator overlapping, and a reader    *)
(*   SpecQuery   a coordinator primed by its first refresh, with a         *)
(*               consumer calling the snapshot's queries while the wall    *)
(*               clock advances                                            *)
(*   SpecSensor  the entities read while the coordinator refreshes         *)
(*   SpecWizard  the setup and reconfigure wizards, one flow at a time     *)
(*   SpecFlow    the wizards, with flows in progress at the same time      *)
(*   SpecOptions one entry set up, its options changed again and again     *)
(*   SpecPlatform  the sensor and binary_sensor platforms set up, then     *)
(*               the timer refreshing and the entities read                *)
(*   SpecReads   a caller querying the snapshot and modifying the lists    *)
(*               it was handed                                             *)
(*   SpecLookup  one remote answer given to search_address, to             *)
(*               get_disposals and to a wizard's search                    *)
(*   SpecIdentity  a coordinator constructed for one of two addresses      *)
(*   SpecCycle   the timer refreshing while the remote goes down and       *)
(*               comes back; SpecCycleFair adds the timer's fairness       *)
(***************************************************************************)
EXTENDS Integers, Sequences, FiniteSets, TLC

VARIABLES
    now,                  \* the wall clock: [day, hour]
    response,             \* SpecClient: the remote's answer to the request
    result,               \* SpecClient: the last client call and its outcome
    data,                 \* coordinator.data: the held snapshot, or None
    last_update_success,  \* coordinator.last_update_success
    last_exception,       \* what the last refresh raised, or None
    returned,             \* what the last successful _async_update_data returned
    reader,               \* a consumer's query in progress (its locals)
    answer,               \* the last answer a query gave its caller
    pending,              \* SpecOverlap: the refreshes started, each awaiting
                          \* its client call or done
    heap,                 \* SpecOverlap: the RenovasjonData objects, by identity
                          \* (there, data and the reader hold references)
    entries,              \* hass.config_entries: entry_id -> config entry
    flows,                \* the config flows in progress: flow_id -> handler
    hass_data,            \* hass.data[DOMAIN]: entry_id -> coordinator
    entities              \* SpecPlatform: per platform, what its setup handed
                          \* to async_add_entities

\* the objects of the overlapping refreshes, and the setup of the integration
object_vars == <<pending, heap>>
setup_vars == <<entries, flows, hass_data>>

vars == <<now, response, result, data, last_update_success, last_exception,
          returned, reader, answer, object_vars, entities, setup_vars>>

-----------------------------------------------------------------------------
(* Bounds *)

\* longest "disposals" list the remote sends
MaxItems == 3
\* last day the wall clock reaches (days are numbered from 0)
MaxDay == 3

\* most consecutive failed refreshes that are counted
MaxFailures == 2

\* longest "searchResults" and "alternateSearchResults" list the remote sends
MaxResults == 2
\* longest query text, in pieces
MaxQueryLen == 3
\* refreshes one coordinator starts (SpecOverlap)
MaxRefreshes == 2

\* the days the remote schedules collections on
ItemDays == {1, 2}
\* the hours of the day the wall clock is read at
Hours == {12}
Fractions == {"Restavfall", "Papir"}

-----------------------------------------------------------------------------
(* Python values *)

None == [py |-> "None"]

Ok(v) == [ok |-> TRUE, value |-> v]
Raise(e) == [ok |-> FALSE, raised |-> e]

\* an exception instance: its class and str(err), as a sequence of text pieces
Exc(cls, msg) == [exc |-> cls, msg |-> msg]

\* the classes an exception is an instance of
Mro(cls) ==
    CASE cls = "RenovasjonApiError" ->
            {"RenovasjonApiError", "Exception"}
      [] cls = "RenovasjonConnectionError" ->
            {"RenovasjonConnectionError", "RenovasjonApiError", "Exception"}
      [] cls = "RenovasjonAddressNotFoundError" ->
            {"RenovasjonAddressNotFoundError", "RenovasjonApiError", "Exception"}
      [] cls = "TimeoutError" ->
            {"TimeoutError", "OSError", "Exception"}
      [] cls = "ServerTimeoutError" ->
            {"ServerTimeoutError", "ServerConnectionError", "ClientConnectionError",
             "ClientError", "TimeoutError", "OSError", "Exception"}
      [] cls = "ClientConnectorError" ->
            {"ClientConnectorError", "ClientOSError", "ClientConnectionError",
             "ClientError", "OSError", "Exception"}
      [] cls = "ClientResponseError" ->
            {"ClientResponseError", "ClientError", "Exception"}
      [] cls = "ContentTypeError" ->
            {"ContentTypeError", "ClientResponseError", "ClientError", "Exception"}
      [] cls = "KeyError" -> {"KeyError", "LookupError", "Exception"}
      [] cls = "ValueError" -> {"ValueError", "Exception"}
      [] cls = "TypeError" -> {"TypeError", "Exception"}
      [] cls = "AttributeError" -> {"AttributeError", "Exception"}
      [] cls = "UpdateFailed" -> {"UpdateFailed", "HomeAssistantError", "Exception"}

isinstance(err, cls) == cls \in Mro(err.exc)

\* A decoded JSON object is a record of its keys. A decoded value that is not
\* an object carries the key "py": a list, a one-character str, or None.
List(items) == [py |-> "list", items |-> items]
Str(text) == [py |-> "str", text |-> text]

\* isinstance(v, dict)
is_dict(v) == "py" \notin DOMAIN v

\* dict.get(key, default)
dict_get(d, key, default) == IF key \in DOMAIN d THEN d[key] ELSE default

\* data.get(...) on what _request returned: only a dict has the method
getattr_get(obj) ==
    IF is_dict(obj) THEN Ok(obj)
    ELSE Raise(Exc("AttributeError", <<"object has no attribute 'get'">>))

\* `for item in v`: a list gives its items, a one-character str gives itself,
\* None is not iterable
iter(v) ==
    CASE v.py = "list" -> Ok(v.items)
      [] v.py = "str" -> Ok(<<v>>)
      [] v.py = "None" -> Raise(Exc("TypeError", <<"'NoneType' object is not iterable">>))

\* item[key] on an item of a list: only a dict is subscripted by a str key
getitem(item, key) ==
    IF ~is_dict(item)
    THEN Raise(Exc("TypeError", <<"object is not subscriptable by str">>))
    ELSE IF key \notin DOMAIN item
    THEN Raise(Exc("KeyError", <<key>>))
    ELSE Ok(item[key])

SeqUpTo(S, n) == UNION {[1..k -> S] : k \in 0..n}

-----------------------------------------------------------------------------
(* The remote service: what one GET can end in *)

\* An ISO-8601 date string "<day>T<hour>:00:00<suffix>", or some other text.
IsoString(day, hour, suffix) ==
    [text |-> "iso", day |-> day, hour |-> hour, suffix |-> suffix]
NotADate == [text |-> "not-a-date", day |-> 0, hour |-> 0, suffix |-> ""]

DateStrings ==
    {IsoString(d, 0, s) : d \in ItemDays, s \in {"", "Z"}} \cup {NotADate}

\* One item of "disposals": a JSON object that may lack either required key.
Items ==
    {[date |-> ds, fraction |-> f] : ds \in DateStrings, f \in Fractions}
    \cup {[date |-> ds] : ds \in DateStrings}
    \cup {[fraction |-> f] : f \in Fractions}
    \cup {[type |-> None]}

\* Payloads of another shape than the endpoints document: a body that is not
\* an object, a list field that is null or a str, an item that is not an object.
OddBodies ==
    {None, List(<<>>),
     [disposals |-> None], [disposals |-> Str("x")],
     [disposals |-> List(<<None>>)], [disposals |-> List(<<Str("x")>>)],
     [searchResults |-> None], [alternateSearchResults |-> Str("x")]}

\* The JSON the details endpoint answers with.
Bodies ==
    {[disposals |-> List(s)] : s \in SeqUpTo(Items, MaxItems)}
    \cup {[type |-> None]}
    \cup OddBodies

NoBody == [type |-> None]

\* A GET ends in a timeout, in a transport failure, or in a final response
\* with a status, a content type and a body.
Responses ==
    {[kind |-> k, status |-> 0, ctype |-> "", body |-> NoBody] :
        k \in {"timeout", "server_timeout", "connect_error"}}
    \cup {[kind |-> "http", status |-> st, ctype |-> "text/html", body |-> NoBody] :
        st \in {200, 301, 404, 500}}
    \cup {[kind |-> "http", status |-> st, ctype |-> "application/json", body |-> b] :
        st \in {200, 301}, b \in Bodies}

-----------------------------------------------------------------------------
(* api.py: the request path *)

API_ADDRESS_DETAILS(address_id) ==
    <<"https://kalender.renovasjonsportal.no/api", "/address/", address_id, "/details">>

\* response.raise_for_status(): raises for a status of 400 or above
raise_for_status(resp) ==
    IF resp.status >= 400
    THEN Raise([exc |-> "ClientResponseError", msg |-> <<ToString(resp.status)>>,
                status |-> resp.status, message |-> "Error"])
    ELSE Ok(None)

\* await response.json(): refuses a body that is not declared as JSON
response_json(resp) ==
    IF resp.ctype # "application/json"
    THEN Raise([exc |-> "ContentTypeError", msg |-> <<ToString(resp.status)>>,
                status |-> resp.status,
                message |-> "Attempt to decode JSON with unexpected mimetype"])
    ELSE Ok(resp.body)

\* the body of _request's try block: session.get, raise_for_status, json
session_get(url, resp) ==
    CASE resp.kind = "timeout" -> Raise(Exc("TimeoutError", <<"">>))
      [] resp.kind = "server_timeout" ->
            Raise(Exc("ServerTimeoutError", <<"Timeout on reading data from socket">>))
      [] resp.kind = "connect_error" ->
            Raise(Exc("ClientConnectorError", <<"Cannot connect to host">>))
      [] resp.kind = "http" ->
            LET st == raise_for_status(resp)
            IN  IF st.ok THEN response_json(resp) ELSE st

\* _request with the ClientError handler ahead of the ClientResponseError one
request_handlers_swapped(url, resp) ==
    LET r == session_get(url, resp)
    IN  IF r.ok THEN r
        ELSE LET err == r.raised
             IN  IF isinstance(err, "TimeoutError")
                 THEN Raise(Exc("RenovasjonConnectionError",
                                <<"Timeout connecting to Renovasjonsportal API">>))
                 ELSE IF isinstance(err, "ClientError")
                 THEN Raise(Exc("RenovasjonConnectionError",
                                <<"Connection error: ">> \o err.msg))
                 ELSE IF isinstance(err, "ClientResponseError")
                 THEN IF err.status = 404
                      THEN Raise(Exc("RenovasjonAddressNotFoundError",
                                     <<"Address not found">>))
                      ELSE Raise(Exc("RenovasjonApiError",
                                     <<"API error: ", ToString(err.status), " ",
                                       err.message>>))
                 ELSE r

\* _request without the special case of a 404
request_without_not_found(url, resp) ==
    LET r == session_get(url, resp)
    IN  IF r.ok THEN r
        ELSE LET err == r.raised
             IN  IF isinstance(err, "TimeoutError")
                 THEN Raise(Exc("RenovasjonConnectionError",
                                <<"Timeout connecting to Renovasjonsportal API">>))
                 ELSE IF isinstance(err, "ClientResponseError")
                 THEN Raise(Exc("RenovasjonApiError",
                                <<"API error: ", ToString(err.status), " ",
                                  err.message>>))
                 ELSE IF isinstance(err, "ClientError")
                 THEN Raise(Exc("RenovasjonConnectionError",
                                <<"Connection error: ">> \o err.msg))
                 ELSE r

\* _request(url), the remote answering the GET of url with resp
_request(url, resp) ==
    LET r == session_get(url, resp)
    IN  IF r.ok THEN r
        ELSE LET err == r.raised
             IN  IF isinstance(err, "TimeoutError")
                 THEN Raise(Exc("RenovasjonConnectionError",
                                <<"Timeout connecting to Renovasjonsportal API">>))
                 ELSE IF isinstance(err, "ClientResponseError")
                 THEN IF err.status = 404
                      THEN Raise(Exc("RenovasjonAddressNotFoundError",
                                     <<"Address not found">>))
                      ELSE Raise(Exc("RenovasjonApiError",
                                     <<"API error: ", ToString(err.status), " ",
                                       err.message>>))
                 ELSE IF isinstance(err, "ClientError")
                 THEN Raise(Exc("RenovasjonConnectionError",
                                <<"Connection error: ">> \o err.msg))
                 ELSE r

-----------------------------------------------------------------------------
(* api.py: WasteDisposal *)

\* date_str.replace("Z", "+00:00")
str_replace_Z(date_str) ==
    [date_str EXCEPT !.suffix = IF @ = "Z" THEN "+00:00" ELSE @]

\* datetime.fromisoformat: a naive datetime for a bare string, an aware one
\* for a string with a UTC offset, ValueError for anything else
fromisoformat(s) ==
    IF s.text = "iso" /\ s.suffix \in {"", "+00:00"}
    THEN Ok([day |-> s.day, hour |-> s.hour,
             tz |-> IF s.suffix = "" THEN "naive" ELSE "utc"])
    ELSE Raise(Exc("ValueError", <<"Invalid isoformat string">>))

WasteDisposal_from_dict(item) ==
    LET date_str == getitem(item, "date")
    IN  IF ~date_str.ok THEN date_str
        ELSE LET date == fromisoformat(str_replace_Z(date_str.value))
                 fraction == getitem(item, "fraction")
             IN  IF ~date.ok THEN date
                 ELSE IF ~fraction.ok THEN fraction
                 ELSE Ok([date |-> date.value,
                          fraction |-> fraction.value,
                          description |-> dict_get(item, "description", None),
                          symbol_id |-> dict_get(item, "symbolId", 0)])

-----------------------------------------------------------------------------
(* api.py: get_disposals and get_disposals_by_fraction *)

\* the loop of get_disposals catching KeyError only
RECURSIVE parse_loop_keyerror_only(_, _)
parse_loop_keyerror_only(items, disposals) ==
    IF items = <<>> THEN Ok(disposals)
    ELSE LET r == WasteDisposal_from_dict(Head(items))
         IN  IF r.ok
             THEN parse_loop_keyerror_only(Tail(items), Append(disposals, r.value))
             ELSE IF isinstance(r.raised, "KeyError")
             THEN parse_loop_keyerror_only(Tail(items), disposals)
             ELSE r

\* the loop of get_disposals: an item whose mapping raises KeyError or
\* ValueError is logged and skipped, any other exception leaves the loop
RECURSIVE parse_loop(_, _)
parse_loop(items, disposals) ==
    IF items = <<>> THEN Ok(disposals)
    ELSE LET r == WasteDisposal_from_dict(Head(items))
         IN  IF r.ok
             THEN parse_loop(Tail(items), Append(disposals, r.value))
             ELSE IF isinstance(r.raised, "KeyError") \/ isinstance(r.raised, "ValueError")
             THEN parse_loop(Tail(items), disposals)
             ELSE r

\* a < b on two datetimes: a naive and an aware one do not compare
datetime_lt(a, b) ==
    IF a.tz # b.tz
    THEN Raise(Exc("TypeError", <<"can't compare offset-naive and offset-aware datetimes">>))
    ELSE Ok(a.day < b.day \/ (a.day = b.day /\ a.hour < b.hour))

\* one step of the sort: d goes behind every element of the sorted run that is
\* not greater, so equal keys keep their order
RECURSIVE sort_insert(_, _)
sort_insert(run, d) ==
    IF run = <<>> THEN Ok(<<d>>)
    ELSE LET last == run[Len(run)]
             lt == datetime_lt(d.date, last.date)
         IN  IF ~lt.ok THEN lt
             ELSE IF lt.value
             THEN LET r == sort_insert(SubSeq(run, 1, Len(run) - 1), d)
                  IN  IF r.ok THEN Ok(Append(r.value, last)) ELSE r
             ELSE Ok(Append(run, d))

\* disposals.sort(key=lambda d: d.date): stable, and it raises what a
\* comparison of two keys raises
RECURSIVE list_sort(_, _)
list_sort(disposals, run) ==
    IF disposals = <<>> THEN Ok(run)
    ELSE LET r == sort_insert(run, Head(disposals))
         IN  IF r.ok THEN list_sort(Tail(disposals), r.value) ELSE r

get_disposals(address_id, resp) ==
    LET url == API_ADDRESS_DETAILS(address_id)
        body == _request(url, resp)
        payload == IF body.ok THEN getattr_get(body.value) ELSE body
        items == IF payload.ok
                 THEN iter(dict_get(payload.value, "disposals", List(<<>>)))
                 ELSE payload
        parsed == IF items.ok THEN parse_loop(items.value, <<>>) ELSE items
    IN  IF parsed.ok THEN list_sort(parsed.value, <<>>) ELSE parsed

\* the loop of get_disposals_by_fraction starting a new list at every disposal
RECURSIVE group_loop_overwriting(_, _)
group_loop_overwriting(disposals, by_fraction) ==
    IF disposals = <<>> THEN by_fraction
    ELSE LET disposal == Head(disposals)
             with_key == IF disposal.fraction \notin DOMAIN by_fraction
                         THEN by_fraction @@ (disposal.fraction :> <<>>)
                         ELSE by_fraction
         IN  group_loop_overwriting(Tail(disposals),
                        [with_key EXCEPT ![disposal.fraction] = <<disposal>>])

\* the loop of get_disposals_by_fraction: a key is added at the first
\* disposal of its fraction, and every disposal is appended to its key's list
RECURSIVE group_loop(_, _)
group_loop(disposals, by_fraction) ==
    IF disposals = <<>> THEN by_fraction
    ELSE LET disposal == Head(disposals)
             with_key == IF disposal.fraction \notin DOMAIN by_fraction
                         THEN by_fraction @@ (disposal.fraction :> <<>>)
                         ELSE by_fraction
         IN  group_loop(Tail(disposals),
                        [with_key EXCEPT ![disposal.fraction] = Append(@, disposal)])

get_disposals_by_fraction(address_id, resp) ==
    LET disposals == get_disposals(address_id, resp)
    IN  IF ~disposals.ok THEN disposals
        ELSE Ok(group_loop(disposals.value, <<>>))

-----------------------------------------------------------------------------
(* api.py: search_address *)

\* A query text is a sequence of pieces: a word of letters, digits or
\* '-', '.', '_', '~', or one character of any other kind.
Words == {"Storgata", "Oslo", "1", "-"}
Reserved == {" ", ",", "/", "?", "#", "&", "=", "%"}
QueryPieces == Words \cup Reserved

\* "%XX" for the one byte of an ASCII character
percent(c) ==
    CASE c = " " -> "%20"
      [] c = "," -> "%2C"
      [] c = "/" -> "%2F"
      [] c = "?" -> "%3F"
      [] c = "#" -> "%23"
      [] c = "&" -> "%26"
      [] c = "=" -> "%3D"
      [] c = "%" -> "%25"

\* urllib.parse.quote with its default safe="/"
quote_default_safe(string, safe) ==
    [i \in 1..Len(string) |->
        IF string[i] \in Words \cup safe \cup {"/"} THEN string[i]
        ELSE percent(string[i])]

\* urllib.parse.quote(string, safe): letters, digits, '_', '.', '-', '~' and
\* the characters of safe stay, every other character is percent-encoded
quote(string, safe) ==
    [i \in 1..Len(string) |->
        IF string[i] \in Words \cup safe THEN string[i]
        ELSE percent(string[i])]

\* API_ADDRESS_SEARCH.format(query=...)
API_ADDRESS_SEARCH(query) ==
    <<"https://kalender.renovasjonsportal.no/api", "/address/">> \o query

\* the URL search_address requests
search_url(query) ==
    LET encoded_query == quote(query, {})
    IN  API_ADDRESS_SEARCH(encoded_query)

AddressSearchResult_from_dict(item) ==
    LET id == getitem(item, "id")
        title == getitem(item, "title")
    IN  IF ~id.ok THEN id
        ELSE IF ~title.ok THEN title
        ELSE Ok([id |-> id.value,
                 title |-> title.value,
                 municipality |-> dict_get(item, "subTitle", "")])

\* a loop of search_address with the items prepended to the results
RECURSIVE results_loop_prepending(_, _)
results_loop_prepending(items, results) ==
    IF items = <<>> THEN Ok(results)
    ELSE LET r == AddressSearchResult_from_dict(Head(items))
         IN  IF r.ok THEN results_loop_prepending(Tail(items), <<r.value>> \o results)
             ELSE r

\* a loop of search_address: every item is mapped and appended to results,
\* and what the mapping raises leaves the loop
RECURSIVE results_loop(_, _)
results_loop(items, results) ==
    IF items = <<>> THEN Ok(results)
    ELSE LET r == AddressSearchResult_from_dict(Head(items))
         IN  IF r.ok THEN results_loop(Tail(items), Append(results, r.value))
             ELSE r

\* search_address raising when it found no address
search_address_empty_raises(query, resp) ==
    LET url == search_url(query)
        body == _request(url, resp)
        payload == IF body.ok THEN getattr_get(body.value) ELSE body
        primary == IF payload.ok
                   THEN iter(dict_get(payload.value, "searchResults", List(<<>>)))
                   ELSE payload
        first == IF primary.ok THEN results_loop(primary.value, <<>>) ELSE primary
        alternate == IF first.ok
                     THEN iter(dict_get(payload.value, "alternateSearchResults",
                                        List(<<>>)))
                     ELSE first
        results == IF alternate.ok THEN results_loop(alternate.value, first.value)
                   ELSE alternate
    IN  IF results.ok /\ results.value = <<>>
        THEN Raise(Exc("RenovasjonAddressNotFoundError", <<"Address not found">>))
        ELSE results

search_address(query, resp) ==
    LET url == search_url(query)
        body == _request(url, resp)
        payload == IF body.ok THEN getattr_get(body.value) ELSE body
        primary == IF payload.ok
                   THEN iter(dict_get(payload.value, "searchResults", List(<<>>)))
                   ELSE payload
        first == IF primary.ok THEN results_loop(primary.value, <<>>) ELSE primary
        alternate == IF first.ok
                     THEN iter(dict_get(payload.value, "alternateSearchResults",
                                        List(<<>>)))
                     ELSE first
    IN  IF alternate.ok THEN results_loop(alternate.value, first.value)
        ELSE alternate

-----------------------------------------------------------------------------
(* The config entry the coordinator is constructed from *)

ENTRY_DATA ==
    [address_id |-> "8c098e45-eeca-4fbb-af2a-7044b88930ce",
     address_name |-> "Sigden 6",
     municipality |-> "Kristiansund kommune"]

-----------------------------------------------------------------------------
(* SpecClient: the client's calls on one remote answer *)

Clocks == {[day |-> d, hour |-> h] : d \in 0..MaxDay, h \in Hours}

\* the platforms the entry is forwarded to
Platforms == {"sensor", "binary_sensor"}

InitCommon ==
    /\ now = [day |-> 0, hour |-> 12]
    /\ result = None
    /\ data = None
    /\ last_update_success = TRUE
    /\ last_exception = None
    /\ returned = None
    /\ reader = None
    /\ answer = None
    /\ pending = <<>>
    /\ heap = <<>>
    /\ entries = <<>>
    /\ flows = <<>>
    /\ hass_data = <<>>
    /\ entities = [platform \in Platforms |-> None]

InitClient ==
    /\ response \in Responses
    /\ InitCommon

CallGetDisposals ==
    /\ result' = [call |-> "get_disposals",
                  out |-> get_disposals(ENTRY_DATA.address_id, response)]
    /\ UNCHANGED <<now, response, data, last_update_success, last_exception,
                   returned, reader, answer, object_vars, entities, setup_vars>>

CallGetDisposalsByFraction ==
    /\ result' = [call |-> "get_disposals_by_fraction",
                  out |-> get_disposals_by_fraction(ENTRY_DATA.address_id, response)]
    /\ UNCHANGED <<now, response, data, last_update_success, last_exception,
                   returned, reader, answer, object_vars, entities, setup_vars>>

NextClient == CallGetDisposals \/ CallGetDisposalsByFraction

SpecClient == InitClient /\ [][NextClient]_vars

-----------------------------------------------------------------------------
(* SpecSearch: the client's calls on one answer of the search endpoint *)
(* SpecUrl: search_address called with any query text *)

\* One item of a result list: a JSON object that may lack a key, or null.
AddressItems ==
    {[id |-> "8c098e45", title |-> "Sigden 6", subTitle |-> "Kristiansund kommune"],
     [id |-> "1f0e7d2a", title |-> "Storgata 1"],
     [title |-> "Storgata 2", subTitle |-> "Oslo"],
     [id |-> "5b3c9a10"],
     None}

ResultLists == {List(s) : s \in SeqUpTo(AddressItems, MaxResults)}

\* The JSON objects the search endpoint answers with: either list may be absent.
SearchBodies ==
    {[searchResults |-> a, alternateSearchResults |-> b] :
        a \in ResultLists, b \in ResultLists}
    \cup {[searchResults |-> a] : a \in ResultLists}
    \cup {[alternateSearchResults |-> b] : b \in ResultLists}

\* some answers of the details endpoint
FewItems ==
    {[date |-> IsoString(1, 0, ""), fraction |-> "Restavfall"],
     [date |-> IsoString(2, 0, "Z"), fraction |-> "Papir"],
     [fraction |-> "Papir"]}
DetailsBodies ==
    {[disposals |-> List(s)] : s \in SeqUpTo(FewItems, 2)} \cup {[type |-> None]}

SearchResponses ==
    {[kind |-> k, status |-> 0, ctype |-> "", body |-> NoBody] :
        k \in {"timeout", "server_timeout", "connect_error"}}
    \cup {[kind |-> "http", status |-> st, ctype |-> "text/html", body |-> NoBody] :
        st \in {200, 404, 500}}
    \cup {[kind |-> "http", status |-> 200, ctype |-> "application/json", body |-> b] :
        b \in SearchBodies \cup DetailsBodies \cup OddBodies}

\* the example of the setup form, and all short texts
EXAMPLE_QUERY == <<"Storgata", " ", "1", ",", " ", "Oslo">>
Queries == SeqUpTo(QueryPieces, MaxQueryLen) \cup {EXAMPLE_QUERY}

\* search_address(query): the request it sends and what it ends in
CallSearchAddress(query) ==
    /\ result' = [call |-> "search_address", query |-> query,
                  url |-> search_url(query),
                  out |-> search_address(query, response)]
    /\ UNCHANGED <<now, response, data, last_update_success, last_exception,
                   returned, reader, answer, object_vars, entities, setup_vars>>

InitSearch ==
    /\ response \in SearchResponses
    /\ InitCommon

NextSearch ==
    \/ CallSearchAddress(EXAMPLE_QUERY)
    \/ CallGetDisposals
    \/ CallGetDisposalsByFraction

SpecSearch == InitSearch /\ [][NextSearch]_vars

\* the remote finds nothing, whatever it is asked
InitUrl ==
    /\ response = [kind |-> "http", status |-> 200, ctype |-> "application/json",
                   body |-> [searchResults |-> List(<<>>),
                             alternateSearchResults |-> List(<<>>)]]
    /\ InitCommon

\* one call of search_address, with any query text
NextUrl ==
    /\ result = None
    /\ \E query \in Queries : CallSearchAddress(query)

SpecUrl == InitUrl /\ [][NextUrl]_vars

-----------------------------------------------------------------------------
(* coordinator.py: RenovasjonData, the snapshot and its queries *)

\* limit's default in get_upcoming_disposals
DEFAULT_LIMIT == 5
\* largest other limit a consumer passes
MaxLimit == 2
Limits == 0..MaxLimit \cup {DEFAULT_LIMIT}

\* a fraction no snapshot has a key for
UNKNOWN == "Unknown"
Queried == Fractions \cup {UNKNOWN}

\* delta.days, where the caller may get None instead
Days(n) == [days |-> n]

\* datetime.date(): the calendar day, time of day and offset dropped
date_of(dt) == dt.day

\* RenovasjonData.__init__, called when the wall clock shows clock
RenovasjonData(address_id, address_name, municipality, disposals_by_fraction, clock) ==
    [address_id |-> address_id,
     address_name |-> address_name,
     municipality |-> municipality,
     disposals_by_fraction |-> disposals_by_fraction,
     last_update |-> clock]

\* the property fractions: the mapping's keys
fractions(self) == DOMAIN self.disposals_by_fraction

\* the loop of get_next_disposal passing over an entry dated today
RECURSIVE first_after(_, _)
first_after(disposals, today) ==
    IF disposals = <<>> THEN None
    ELSE IF date_of(Head(disposals).date) > today THEN Head(disposals)
    ELSE first_after(Tail(disposals), today)

\* the loop of get_next_disposal
RECURSIVE first_from(_, _)
first_from(disposals, today) ==
    IF disposals = <<>> THEN None
    ELSE IF date_of(Head(disposals).date) >= today THEN Head(disposals)
    ELSE first_from(Tail(disposals), today)

\* get_next_disposal returning the latest entry that is not in the past
get_next_disposal_latest(self, fraction, clock) ==
    LET disposals == dict_get(self.disposals_by_fraction, fraction, <<>>)
        upcoming == SelectSeq(disposals, LAMBDA d : date_of(d.date) >= date_of(clock))
    IN  IF upcoming = <<>> THEN None ELSE upcoming[Len(upcoming)]

\* get_next_disposal(fraction), datetime.now() giving clock
get_next_disposal(self, fraction, clock) ==
    LET disposals == dict_get(self.disposals_by_fraction, fraction, <<>>)
    IN  first_from(disposals, date_of(clock))

\* list[:limit]
slice_to(list, limit) ==
    IF limit >= 0
    THEN SubSeq(list, 1, IF limit < Len(list) THEN limit ELSE Len(list))
    ELSE SubSeq(list, 1, IF Len(list) + limit > 0 THEN Len(list) + limit ELSE 0)

\* get_upcoming_disposals cutting to limit before it drops the past entries
upcoming_cut_first(self, fraction, limit, clock) ==
    LET disposals == dict_get(self.disposals_by_fraction, fraction, <<>>)
    IN  SelectSeq(slice_to(disposals, limit),
                  LAMBDA d : date_of(d.date) >= date_of(clock))

\* get_upcoming_disposals(fraction, limit), datetime.now() giving clock
get_upcoming_disposals(self, fraction, limit, clock) ==
    LET disposals == dict_get(self.disposals_by_fraction, fraction, <<>>)
        upcoming == SelectSeq(disposals, LAMBDA d : date_of(d.date) >= date_of(clock))
    IN  slice_to(upcoming, limit)

\* the end of get_days_until with the difference taken the wrong way round
days_until_reversed(next_disposal, clock) ==
    IF next_disposal = None THEN None
    ELSE Days(date_of(clock) - date_of(next_disposal.date))

\* the end of get_days_until: next_disposal is what get_next_disposal gave,
\* clock what the wall clock shows when date.today() is read
days_until(next_disposal, clock) ==
    IF next_disposal = None THEN None
    ELSE Days(date_of(next_disposal.date) - date_of(clock))

-----------------------------------------------------------------------------
(* coordinator.py: RenovasjonCoordinator *)

\* what `await client.get_disposals_by_fraction(self._address_id)` can end in
Fetched ==
    {get_disposals_by_fraction(ENTRY_DATA.address_id, resp) : resp \in Responses}

UpdateFailed(prefix, err) ==
    [exc |-> "UpdateFailed", msg |-> <<prefix>> \o err.msg, cause |-> err]

\* _async_update_data answering a client error with an empty snapshot
async_update_data_placeholder(fetched, clock) ==
    IF fetched.ok
    THEN Ok(RenovasjonData(ENTRY_DATA.address_id, ENTRY_DATA.address_name,
                           ENTRY_DATA.municipality, fetched.value, clock))
    ELSE LET err == fetched.raised
         IN  IF isinstance(err, "RenovasjonConnectionError")
             THEN Raise(UpdateFailed("Connection error: ", err))
             ELSE IF isinstance(err, "RenovasjonApiError")
             THEN Ok(RenovasjonData(ENTRY_DATA.address_id, ENTRY_DATA.address_name,
                                    ENTRY_DATA.municipality, <<>>, clock))
             ELSE Raise(UpdateFailed("Unexpected error: ", err))

\* _async_update_data with the RenovasjonApiError handler ahead of the
\* RenovasjonConnectionError one
async_update_data_api_first(fetched, clock) ==
    IF fetched.ok
    THEN Ok(RenovasjonData(ENTRY_DATA.address_id, ENTRY_DATA.address_name,
                           ENTRY_DATA.municipality, fetched.value, clock))
    ELSE LET err == fetched.raised
         IN  IF isinstance(err, "RenovasjonApiError")
             THEN Raise(UpdateFailed("API error: ", err))
             ELSE IF isinstance(err, "RenovasjonConnectionError")
             THEN Raise(UpdateFailed("Connection error: ", err))
             ELSE Raise(UpdateFailed("Unexpected error: ", err))

\* _async_update_data, the client call ending in fetched and the wall clock
\* showing clock
_async_update_data(fetched, clock) ==
    IF fetched.ok
    THEN Ok(RenovasjonData(ENTRY_DATA.address_id, ENTRY_DATA.address_name,
                           ENTRY_DATA.municipality, fetched.value, clock))
    ELSE LET err == fetched.raised
         IN  IF isinstance(err, "RenovasjonConnectionError")
             THEN Raise(UpdateFailed("Connection error: ", err))
             ELSE IF isinstance(err, "RenovasjonApiError")
             THEN Raise(UpdateFailed("API error: ", err))
             ELSE Raise(UpdateFailed("Unexpected error: ", err))

\* a refresh that drops the held snapshot when the update fails
RefreshClearingOnFailure ==
    \E fetched \in Fetched :
        LET r == _async_update_data(fetched, now)
        IN  /\ result' = [call |-> "get_disposals_by_fraction", out |-> fetched]
            /\ IF r.ok
               THEN /\ data' = r.value
                    /\ returned' = r.value
                    /\ last_update_success' = TRUE
                    /\ last_exception' = None
               ELSE /\ data' = None
                    /\ returned' = returned
                    /\ last_update_success' = FALSE
                    /\ last_exception' = r.raised
            /\ UNCHANGED <<now, response, reader, answer, object_vars, entities, setup_vars>>

\* One refresh of the coordinator. RenovasjonCoordinator is a
\* DataUpdateCoordinator: the base class awaits _async_update_data, keeps what
\* it returns as self.data, and on UpdateFailed records the error and leaves
\* self.data alone.
Refresh ==
    \E fetched \in Fetched :
        LET r == _async_update_data(fetched, now)
        IN  /\ result' = [call |-> "get_disposals_by_fraction", out |-> fetched]
            /\ IF r.ok
               THEN /\ data' = r.value
                    /\ returned' = r.value
                    /\ last_update_success' = TRUE
                    /\ last_exception' = None
               ELSE /\ data' = data
                    /\ returned' = returned
                    /\ last_update_success' = FALSE
                    /\ last_exception' = r.raised
            /\ UNCHANGED <<now, response, reader, answer, object_vars, entities, setup_vars>>

\* the wall clock advances to the next hour it is read at
Tick ==
    /\ \E later \in Clocks :
          /\ \/ later.day = now.day /\ later.hour > now.hour
                /\ \A h \in Hours : ~(now.hour < h /\ h < later.hour)
             \/ later.day = now.day + 1
                /\ \A h \in Hours : later.hour <= h /\ h <= now.hour
          /\ now' = later
    /\ UNCHANGED <<response, result, data, last_update_success, last_exception,
                   returned, reader, answer, object_vars, entities, setup_vars>>

Init ==
    /\ response = None
    /\ InitCommon

Next == Refresh \/ Tick

Spec == Init /\ [][Next]_vars

-----------------------------------------------------------------------------
(* SpecOverlap: refreshes of one coordinator that overlap, and a reader *)

\* what the remote answers the overlapping refreshes with
OverlapResponses ==
    {[kind |-> "timeout", status |-> 0, ctype |-> "", body |-> NoBody]}
    \cup {[kind |-> "http", status |-> 200, ctype |-> "application/json",
           body |-> [disposals |-> List(<<item>>)]] :
            item \in {[date |-> IsoString(1, 0, ""), fraction |-> "Restavfall"],
                      [date |-> IsoString(2, 0, "Z"), fraction |-> "Papir"]}}

OverlapFetched ==
    {get_disposals_by_fraction(ENTRY_DATA.address_id, resp) : resp \in OverlapResponses}

\* a reference to the object heap[i]
Ref(i) == [ref |-> i]

\* _async_update_data up to its await: the client call is on its way
BeginRefresh ==
    /\ Len(pending) < MaxRefreshes
    /\ pending' = Append(pending, [state |-> "awaiting"])
    /\ UNCHANGED <<now, response, result, data, last_update_success, last_exception,
                   returned, reader, answer, heap, entities, setup_vars>>

\* a refresh that writes its result into the object the coordinator holds
EndRefreshInPlace(i) ==
    /\ pending[i].state = "awaiting"
    /\ \E fetched \in OverlapFetched :
          LET r == _async_update_data(fetched, now)
          IN  /\ result' = [call |-> "get_disposals_by_fraction", out |-> fetched]
              /\ IF r.ok
                 THEN /\ heap' = IF data = None THEN Append(heap, r.value)
                                 ELSE [heap EXCEPT ![data.ref] = r.value]
                      /\ data' = IF data = None THEN Ref(Len(heap) + 1) ELSE data
                      /\ returned' = data'
                      /\ last_update_success' = TRUE
                      /\ last_exception' = None
                      /\ pending' = [pending EXCEPT ![i] =
                                        [state |-> "done", fetched |-> fetched,
                                         at |-> now, ref |-> Len(heap) + 1]]
                 ELSE /\ UNCHANGED <<heap, data, returned>>
                      /\ last_update_success' = FALSE
                      /\ last_exception' = r.raised
                      /\ pending' = [pending EXCEPT ![i] =
                                        [state |-> "done", fetched |-> fetched,
                                         at |-> now, ref |-> 0]]
    /\ UNCHANGED <<now, response, reader, answer, entities, setup_vars>>

\* The client call of refresh i ends: _async_update_data goes on from its
\* await without another one, returns a new RenovasjonData object or raises
\* UpdateFailed, and the base class keeps the object returned as self.data.
EndRefresh(i) ==
    /\ pending[i].state = "awaiting"
    /\ \E fetched \in OverlapFetched :
          LET r == _async_update_data(fetched, now)
          IN  /\ result' = [call |-> "get_disposals_by_fraction", out |-> fetched]
              /\ IF r.ok
                 THEN /\ heap' = Append(heap, r.value)
                      /\ data' = Ref(Len(heap) + 1)
                      /\ returned' = data'
                      /\ last_update_success' = TRUE
                      /\ last_exception' = None
                      /\ pending' = [pending EXCEPT ![i] =
                                        [state |-> "done", fetched |-> fetched,
                                         at |-> now, ref |-> Len(heap) + 1]]
                 ELSE /\ UNCHANGED <<heap, data, returned>>
                      /\ last_update_success' = FALSE
                      /\ last_exception' = r.raised
                      /\ pending' = [pending EXCEPT ![i] =
                                        [state |-> "done", fetched |-> fetched,
                                         at |-> now, ref |-> 0]]
    /\ UNCHANGED <<now, response, reader, answer, entities, setup_vars>>

\* the fields a reader reads off a snapshot, in the order it reads them
SnapshotFields == <<"address_id", "disposals_by_fraction", "last_update">>

\* a reader takes coordinator.data
ReaderTake ==
    /\ reader = None
    /\ IF data = None
       THEN /\ answer' = [call |-> "read", taken |-> None, seen |-> <<>>]
            /\ reader' = reader
       ELSE /\ reader' = [call |-> "read", taken |-> data, seen |-> <<>>]
            /\ answer' = answer
    /\ UNCHANGED <<now, response, result, data, last_update_success, last_exception,
                   returned, object_vars, entities, setup_vars>>

\* the reader reads the next field of the object it took
ReaderRead ==
    /\ reader # None
    /\ LET field == SnapshotFields[Len(reader.seen) + 1]
           seen == Append(reader.seen, heap[reader.taken.ref][field])
       IN  IF Len(seen) = Len(SnapshotFields)
           THEN /\ answer' = [reader EXCEPT !.seen = seen]
                /\ reader' = None
           ELSE /\ reader' = [reader EXCEPT !.seen = seen]
                /\ answer' = answer
    /\ UNCHANGED <<now, response, result, data, last_update_success, last_exception,
                   returned, object_vars, entities, setup_vars>>

NextOverlap ==
    \/ BeginRefresh
    \/ \E i \in 1..Len(pending) : EndRefresh(i)
    \/ Tick
    \/ ReaderTake
    \/ ReaderRead

SpecOverlap == Init /\ [][NextOverlap]_vars

-----------------------------------------------------------------------------
(* SpecQuery: a consumer reading the snapshot the first refresh left *)

\* async_config_entry_first_refresh: the refresh that primes the coordinator
FirstRefresh ==
    /\ data = None
    /\ reader = None
    /\ Refresh

\* a consumer calls get_next_disposal(fraction)
CallGetNextDisposal ==
    /\ data # None
    /\ reader = None
    /\ \E fraction \in Queried :
          answer' = [call |-> "get_next_disposal", fraction |-> fraction,
                     now |-> now,
                     value |-> get_next_disposal(data, fraction, now)]
    /\ UNCHANGED <<now, response, result, data, last_update_success,
                   last_exception, returned, reader, object_vars, entities, setup_vars>>

\* a consumer calls get_upcoming_disposals(fraction, limit)
CallGetUpcomingDisposals ==
    /\ data # None
    /\ reader = None
    /\ \E fraction \in Queried, limit \in Limits :
          answer' = [call |-> "get_upcoming_disposals", fraction |-> fraction,
                     limit |-> limit, now |-> now,
                     value |-> get_upcoming_disposals(data, fraction, limit, now)]
    /\ UNCHANGED <<now, response, result, data, last_update_success,
                   last_exception, returned, reader, object_vars, entities, setup_vars>>

\* a consumer calls get_days_until(fraction): the call reads the wall clock in
\* get_next_disposal, and once more for date.today() unless it returns None
CallGetDaysUntil ==
    /\ data # None
    /\ reader = None
    /\ \E fraction \in Queried :
          LET next_disposal == get_next_disposal(data, fraction, now)
          IN  IF next_disposal = None
              THEN /\ answer' = [call |-> "get_days_until", fraction |-> fraction,
                                 now |-> now, today |-> now,
                                 next_disposal |-> None,
                                 value |-> days_until(None, now)]
                   /\ reader' = reader
              ELSE /\ reader' = [call |-> "get_days_until", fraction |-> fraction,
                                 now |-> now, next_disposal |-> next_disposal]
                   /\ answer' = answer
    /\ UNCHANGED <<now, response, result, data, last_update_success,
                   last_exception, returned, object_vars, entities, setup_vars>>

\* get_days_until reads date.today() and returns
ReturnDaysUntil ==
    /\ reader # None
    /\ answer' = [call |-> "get_days_until", fraction |-> reader.fraction,
                  now |-> reader.now, today |-> now,
                  next_disposal |-> reader.next_disposal,
                  value |-> days_until(reader.next_disposal, now)]
    /\ reader' = None
    /\ UNCHANGED <<now, response, result, data, last_update_success,
                   last_exception, returned, object_vars, entities, setup_vars>>

NextQuery ==
    \/ FirstRefresh
    \/ Tick
    \/ CallGetNextDisposal
    \/ CallGetUpcomingDisposals
    \/ CallGetDaysUntil
    \/ ReturnDaysUntil

SpecQuery == Init /\ [][NextQuery]_vars

-----------------------------------------------------------------------------
(* sensor.py, binary_sensor.py: the entities of a fraction *)

\* a date, and a bool, where the caller may get None instead
Date(day) == [date |-> day]
Bool(b) == [bool |-> b]

\* datetime.isoformat(): the offset of an aware datetime is written "+00:00"
datetime_isoformat(dt) ==
    IsoString(dt.day, dt.hour, IF dt.tz = "utc" THEN "+00:00" ELSE "")

\* date.isoformat()
date_isoformat(day) == [text |-> "iso-date", day |-> day]

\* RenovasjonSensor.native_value, its clock read giving reads[1]
native_value(fraction, coordinator_data, reads) ==
    IF coordinator_data = None THEN None
    ELSE LET next_disposal == get_next_disposal(coordinator_data, fraction, reads[1])
         IN  IF next_disposal = None THEN None
             ELSE Date(date_of(next_disposal.date))

\* extra_state_attributes filling in the address before it looks at the data
extra_state_attributes_address_first(fraction, coordinator_data, reads) ==
    LET attrs == [fraction |-> fraction, address |-> ENTRY_DATA.address_name,
                  municipality |-> ENTRY_DATA.municipality]
    IN  IF coordinator_data = None THEN attrs
        ELSE LET first == get_next_disposal(coordinator_data, fraction, reads[1])
                 n == IF first = None THEN 1 ELSE 2
                 until == days_until(first, reads[2])
                 next_disposal == get_next_disposal(coordinator_data, fraction, reads[n + 1])
                 upcoming == get_upcoming_disposals(coordinator_data, fraction, 5,
                                                    reads[n + 2])
             IN  attrs
                 @@ (IF until # None THEN "days_until" :> until.days ELSE <<>>)
                 @@ (IF next_disposal # None
                     THEN "next_date" :> datetime_isoformat(next_disposal.date)
                     ELSE <<>>)
                 @@ (IF upcoming # <<>>
                     THEN "upcoming_dates" :>
                            [i \in 1..Len(upcoming) |->
                                date_isoformat(date_of(upcoming[i].date))]
                     ELSE <<>>)

\* RenovasjonSensor.extra_state_attributes. get_days_until reads the clock
\* once, and once more when there is a next disposal; get_next_disposal and
\* get_upcoming_disposals read it once each: reads are the clock's answers.
extra_state_attributes(fraction, coordinator_data, reads) ==
    LET attrs == [fraction |-> fraction]
    IN  IF coordinator_data = None THEN attrs
        ELSE LET first == get_next_disposal(coordinator_data, fraction, reads[1])
                 n == IF first = None THEN 1 ELSE 2
                 until == days_until(first, reads[2])
                 next_disposal == get_next_disposal(coordinator_data, fraction, reads[n + 1])
                 upcoming == get_upcoming_disposals(coordinator_data, fraction, 5,
                                                    reads[n + 2])
             IN  attrs
                 @@ ("address" :> coordinator_data.address_name)
                 @@ ("municipality" :> coordinator_data.municipality)
                 @@ (IF until # None THEN "days_until" :> until.days ELSE <<>>)
                 @@ (IF next_disposal # None
                     THEN "next_date" :> datetime_isoformat(next_disposal.date)
                     ELSE <<>>)
                 @@ (IF upcoming # <<>>
                     THEN "upcoming_dates" :>
                            [i \in 1..Len(upcoming) |->
                                date_isoformat(date_of(upcoming[i].date))]
                     ELSE <<>>)

\* RenovasjonCollectionTodaySensor.is_on: get_next_disposal reads the clock,
\* and date.today() reads it again
is_on(fraction, coordinator_data, reads) ==
    IF coordinator_data = None THEN None
    ELSE LET next_disposal == get_next_disposal(coordinator_data, fraction, reads[1])
         IN  IF next_disposal = None THEN Bool(FALSE)
             ELSE Bool(date_of(next_disposal.date) = date_of(reads[2]))

-----------------------------------------------------------------------------
(* SpecSensor: the entities read while the coordinator is primed and the *)
(* wall clock advances                                                     *)

\* the most clock reads one property makes
MostReads == 4

\* What the clock reads of one property give: the wall clock, and from some
\* read on the next day when midnight passes meanwhile.
ClockReads ==
    {[i \in 1..MostReads |-> now]}
    \cup {[i \in 1..MostReads |-> IF i < k THEN now ELSE later] :
            k \in 2..MostReads, later \in {c \in Clocks : c.day = now.day + 1}}

\* the state machine reads a property of an entity
ReadProperty(name, value, fraction, reads) ==
    /\ answer' = [call |-> name, fraction |-> fraction, snapshot |-> data,
                  reads |-> reads, value |-> value]
    /\ now' = reads[MostReads]
    /\ UNCHANGED <<response, result, data, last_update_success, last_exception,
                   returned, reader, object_vars, entities, setup_vars>>

ReadNativeValue ==
    \E fraction \in Fractions, reads \in ClockReads :
        ReadProperty("native_value", native_value(fraction, data, reads),
                     fraction, reads)

ReadExtraStateAttributes ==
    \E fraction \in Fractions, reads \in ClockReads :
        ReadProperty("extra_state_attributes",
                     extra_state_attributes(fraction, data, reads), fraction, reads)

ReadIsOn ==
    \E fraction \in Fractions, reads \in ClockReads :
        ReadProperty("is_on", is_on(fraction, data, reads), fraction, reads)

NextSensor ==
    \/ FirstRefresh
    \/ Tick
    \/ ReadNativeValue
    \/ ReadExtraStateAttributes
    \/ ReadIsOn

SpecSensor == Init /\ [][NextSensor]_vars

-----------------------------------------------------------------------------
(* Vocabulary of the claims about the client (SpecClient) *)

Called(name) == result # None /\ result.call = name

IsHttp(resp) == resp.kind = "http"
IsTransportFailure(resp) == resp.kind \in {"timeout", "server_timeout", "connect_error"}

\* the remote answered the details request 2xx with a JSON object whose
\* "disposals", when it has one, is a list of JSON objects
IsDetailsResponse(resp) ==
    /\ IsHttp(resp) /\ resp.status \in 200..299 /\ resp.ctype = "application/json"
    /\ is_dict(resp.body)
    /\ "disposals" \in DOMAIN resp.body =>
          /\ resp.body.disposals.py = "list"
          /\ \A i \in 1..Len(resp.body.disposals.items) :
                is_dict(resp.body.disposals.items[i])

ItemsOf(resp) == dict_get(resp.body, "disposals", List(<<>>)).items

\* an item with both required fields and an ISO-8601 date, bare or 'Z'-suffixed
IsValidItem(item) ==
    /\ "date" \in DOMAIN item
    /\ "fraction" \in DOMAIN item
    /\ item.date.text = "iso"
    /\ item.date.suffix \in {"", "Z"}

\* the disposal a valid item stands for
DisposalOf(item) ==
    [date |-> [day |-> item.date.day, hour |-> item.date.hour,
               tz |-> IF item.date.suffix = "Z" THEN "utc" ELSE "naive"],
     fraction |-> item.fraction,
     description |-> None,
     symbol_id |-> 0]

ValidItems(resp) == SelectSeq(ItemsOf(resp), IsValidItem)

ValidDisposals(resp) ==
    [i \in 1..Len(ValidItems(resp)) |-> DisposalOf(ValidItems(resp)[i])]

\* the response with its malformed items taken out
WithoutMalformed(resp) ==
    [resp EXCEPT !.body = [disposals |-> List(ValidItems(resp))]]

\* bare and 'Z'-suffixed dates both occur among the valid items
MixesDateKinds(resp) ==
    \E i, j \in 1..Len(ValidItems(resp)) :
        ValidItems(resp)[i].date.suffix # ValidItems(resp)[j].date.suffix

DateKey(d) == d.date.day * 24 + d.date.hour

SortedByDate(seq) ==
    \A i, j \in 1..Len(seq) : i < j => DateKey(seq[i]) <= DateKey(seq[j])

OnDate(seq, key) == SelectSeq(seq, LAMBDA d : DateKey(d) = key)
OfFraction(seq, f) == SelectSeq(seq, LAMBDA d : d.fraction = f)

RECURSIVE TotalLen(_, _)
TotalLen(by_fraction, keys) ==
    IF keys = {} THEN 0
    ELSE LET f == CHOOSE k \in keys : TRUE
         IN  Len(by_fraction[f]) + TotalLen(by_fraction, keys \ {f})

RaisedExactly(out, cls) == ~out.ok /\ out.raised.exc = cls

-----------------------------------------------------------------------------
(* C4 *)

-----------------------------------------------------------------------------
(* C5 *)

\* C5: for any 2xx details response, whatever the order of its items and
\* whether its dates are bare, 'Z'-suffixed or a mix of both, get_disposals
\* returns the valid items, sorted non-decreasing by date.
C5_SortedForAnyResponse ==
    (Called("get_disposals") /\ IsDetailsResponse(response)) =>
        /\ result.out.ok
        /\ Len(result.out.value) = Len(ValidItems(response))
        /\ SortedByDate(result.out.value)

-----------------------------------------------------------------------------
(* C6 *)

-----------------------------------------------------------------------------
(* C7 *)

\* C7: get_disposals_by_fraction partitions the result of get_disposals: its
\* keys are the fractions that occur, the bucket of a fraction holds exactly
\* the disposals of that fraction in the order get_disposals gave them, no
\* bucket is empty, the buckets together hold as many disposals as
\* get_disposals returned, and the dates of a bucket are non-decreasing. It
\* raises exactly when get_disposals does.
C7_PartitionByFraction ==
    Called("get_disposals_by_fraction") =>
        LET all == get_disposals(ENTRY_DATA.address_id, response)
            out == result.out
        IN  /\ out.ok <=> all.ok
            /\ ~out.ok => out = all
            /\ out.ok =>
                  /\ DOMAIN out.value = {all.value[i].fraction : i \in 1..Len(all.value)}
                  /\ \A f \in DOMAIN out.value :
                        /\ out.value[f] = OfFraction(all.value, f)
                        /\ out.value[f] # <<>>
                        /\ SortedByDate(out.value[f])
                        /\ \A i \in 1..Len(out.value[f]) : out.value[f][i].fraction = f
                  /\ TotalLen(out.value, DOMAIN out.value) = Len(all.value)

\* two buckets, one of them with two disposals
C7_Witness ==
    /\ Called("get_disposals_by_fraction")
    /\ result.out.ok
    /\ Cardinality(DOMAIN result.out.value) = 2
    /\ \E f \in DOMAIN result.out.value : Len(result.out.value[f]) = 2

-----------------------------------------------------------------------------
(* Vocabulary of the claims about the coordinator (Spec, SpecQuery) *)

\* the client call of the latest refresh raised
FetchFailed(res) == res # None /\ ~res.out.ok
\* the client call of the latest refresh returned
FetchSucceeded(res) == res # None /\ res.out.ok

Answered(name) == answer # None /\ answer.call = name

\* the held snapshot's sequence for a fraction, empty for an unknown one
SequenceOf(snapshot, fraction) ==
    IF fraction \in DOMAIN snapshot.disposals_by_fraction
    THEN snapshot.disposals_by_fraction[fraction]
    ELSE <<>>

\* the entries of a sequence dated on or after a day
FromDay(seq, day) == SelectSeq(seq, LAMBDA d : d.date.day >= day)

-----------------------------------------------------------------------------
(* C1 *)

\* C1: a refresh whose client call fails raises UpdateFailed and leaves the
\* held snapshot exactly as it was, so that the coordinator still holds what
\* the last successful refresh returned and the three queries answer from it
\* as they did before.
C1_FailedRefreshKeepsSnapshot ==
    [][ FetchFailed(result') =>
          /\ data' = data
          /\ data' = returned'
          /\ ~last_update_success'
          /\ last_exception' # None /\ last_exception'.exc = "UpdateFailed"
          /\ data # None =>
                \A f \in Queried :
                    /\ get_next_disposal(data', f, now) = get_next_disposal(data, f, now)
                    /\ days_until(get_next_disposal(data', f, now), now)
                          = days_until(get_next_disposal(data, f, now), now)
                    /\ \A limit \in Limits :
                          get_upcoming_disposals(data', f, limit, now)
                              = get_upcoming_disposals(data, f, limit, now)
      ]_vars

\* the latest refresh failed, and the snapshot of an earlier one still answers
\* get_next_disposal with an entry
C1_Witness ==
    /\ FetchFailed(result)
    /\ last_exception # None
    /\ data # None
    /\ data = returned
    /\ \E f \in Fractions : get_next_disposal(data, f, now) # None

-----------------------------------------------------------------------------
(* C2 *)

\* C2: the coordinator starts without a snapshot; while no refresh has
\* succeeded it holds none, and a failed refresh leaves it without one; after a
\* successful refresh it holds the snapshot built from what the client
\* returned; the held snapshot changes only by a successful refresh, to a
\* snapshot stamped with the time of that refresh; and once it holds a snapshot
\* it never holds none again.
C2_UninitializedThenReady ==
    /\ data = None
    /\ [][ /\ FetchSucceeded(result') =>
                /\ data' # None
                /\ data' = returned'
                /\ data'.disposals_by_fraction = result'.out.value
           /\ (data = None /\ ~FetchSucceeded(result')) => data' = None
           /\ data' # data =>
                /\ FetchSucceeded(result')
                /\ data'.last_update = now'
           /\ data # None => data' # None
         ]_vars

\* a refresh has failed on a later day than the one the held snapshot is from
C2_Witness ==
    /\ data # None
    /\ FetchFailed(result)
    /\ data.last_update.day < now.day

-----------------------------------------------------------------------------
(* C3 *)

\* C3: whatever the client call of a refresh raises reaches the coordinator's
\* consumers as UpdateFailed: with a message that starts 'Connection error'
\* for a RenovasjonConnectionError, 'API error' for a RenovasjonApiError or a
\* RenovasjonAddressNotFoundError, 'Unexpected error' for anything else, and
\* that goes on with the text of the error raised.
C3_FailuresBecomeUpdateFailed ==
    /\ last_exception # None => last_exception.exc = "UpdateFailed"
    /\ FetchFailed(result) =>
          LET err == result.out.raised
          IN  /\ last_exception # None
              /\ last_exception.cause = err
              /\ Head(last_exception.msg) =
                    (IF err.exc = "RenovasjonConnectionError" THEN "Connection error: "
                     ELSE IF err.exc \in {"RenovasjonApiError",
                                          "RenovasjonAddressNotFoundError"}
                     THEN "API error: "
                     ELSE "Unexpected error: ")
              /\ Tail(last_exception.msg) = err.msg

\* a RenovasjonAddressNotFoundError has been reported as an 'API error'
C3_Witness ==
    /\ FetchFailed(result)
    /\ result.out.raised.exc = "RenovasjonAddressNotFoundError"
    /\ last_exception # None
    /\ last_exception.msg = <<"API error: ", "Address not found">>

-----------------------------------------------------------------------------
(* C8 *)

\* C8: on a snapshot a refresh produced, get_next_disposal(fraction) is None
\* when the fraction is unknown or has no entry dated today or later;
\* otherwise it is an entry of the fraction dated today or later, and no entry
\* of the fraction dated today or later is dated earlier.
C8_NextDisposalIsEarliest ==
    Answered("get_next_disposal") =>
        LET seq == SequenceOf(data, answer.fraction)
            today == answer.now.day
            later == FromDay(seq, today)
        IN  /\ answer.value = None <=> later = <<>>
            /\ answer.fraction \notin DOMAIN data.disposals_by_fraction
                  => answer.value = None
            /\ answer.value # None =>
                  /\ \E i \in 1..Len(seq) : seq[i] = answer.value
                  /\ answer.value.fraction = answer.fraction
                  /\ answer.value.date.day >= today
                  /\ \A i \in 1..Len(later) :
                        answer.value.date.day <= later[i].date.day

\* a fraction with a past entry and two later ones: the past one is passed over
C8_Witness ==
    /\ Answered("get_next_disposal")
    /\ answer.value # None
    /\ LET seq == SequenceOf(data, answer.fraction)
       IN  /\ Len(seq) = 3
           /\ seq[1].date.day < answer.now.day
           /\ answer.value = seq[2]

-----------------------------------------------------------------------------
(* C9 *)

\* C9: get_upcoming_disposals(fraction, limit) is the entries of the fraction
\* dated today or later, in their order, cut to the first limit of them: it is
\* never longer than limit, holds no entry dated before today, and is empty for
\* an unknown fraction.
C9_UpcomingIsFilteredAndCut ==
    Answered("get_upcoming_disposals") =>
        LET later == FromDay(SequenceOf(data, answer.fraction), answer.now.day)
            n == IF answer.limit < Len(later) THEN answer.limit ELSE Len(later)
        IN  /\ answer.value = SubSeq(later, 1, n)
            /\ Len(answer.value) <= answer.limit
            /\ \A i \in 1..Len(answer.value) :
                  answer.value[i].date.day >= answer.now.day
            /\ answer.fraction \notin DOMAIN data.disposals_by_fraction
                  => answer.value = <<>>

\* a past entry dropped and two later ones cut to one
C9_Witness ==
    /\ Answered("get_upcoming_disposals")
    /\ answer.limit = 1
    /\ LET seq == SequenceOf(data, answer.fraction)
       IN  /\ Len(seq) = 3
           /\ seq[1].date.day < answer.now.day
           /\ answer.value = <<seq[2]>>

-----------------------------------------------------------------------------
(* C10 *)

\* C10: get_days_until(fraction) is None exactly when its get_next_disposal
\* is None, which is when the fraction is unknown or has no entry dated on or
\* after the day the call started on; otherwise it is the calendar day of that
\* next disposal minus the day date.today() gives: 0 for a disposal dated
\* today, 1 for one dated tomorrow.
C10_DaysUntilIsDayDifference ==
    Answered("get_days_until") =>
        LET seq == SequenceOf(data, answer.fraction)
            next_disposal == answer.next_disposal
        IN  /\ next_disposal = get_next_disposal(data, answer.fraction, answer.now)
            /\ answer.value = None <=> next_disposal = None
            /\ answer.value = None <=> FromDay(seq, answer.now.day) = <<>>
            /\ answer.value # None =>
                  /\ answer.value.days = next_disposal.date.day - answer.today.day
                  /\ next_disposal.date.day = answer.today.day => answer.value.days = 0
                  /\ next_disposal.date.day = answer.today.day + 1 => answer.value.days = 1

\* one day until a disposal dated tomorrow
C10_Witness ==
    /\ Answered("get_days_until")
    /\ answer.value = Days(1)
    /\ answer.today = answer.now
    /\ answer.next_disposal.date.day = answer.now.day + 1

-----------------------------------------------------------------------------
(* Vocabulary of the claims about search_address (SpecSearch, SpecUrl) *)

\* the remote answered 2xx with a JSON object
IsJsonObjectResponse(resp) ==
    /\ IsHttp(resp) /\ resp.status \in 200..299 /\ resp.ctype = "application/json"
    /\ is_dict(resp.body)

\* a field of the body is absent or a list
IsListOrAbsent(resp, key) == key \in DOMAIN resp.body => resp.body[key].py = "list"

\* the items of a list field, none for an absent field
ListOf(resp, key) == dict_get(resp.body, key, List(<<>>)).items

\* an item the search endpoint documents: an object with an id and a title
IsAddressItem(item) ==
    is_dict(item) /\ "id" \in DOMAIN item /\ "title" \in DOMAIN item

\* the search result an item stands for
AddressOf(item) ==
    [id |-> item.id,
     title |-> item.title,
     municipality |-> IF "subTitle" \in DOMAIN item THEN item.subTitle ELSE ""]

\* both result lists are lists of documented items
IsSearchResponse(resp) ==
    /\ IsJsonObjectResponse(resp)
    /\ \A key \in {"searchResults", "alternateSearchResults"} :
          /\ IsListOrAbsent(resp, key)
          /\ \A i \in 1..Len(ListOf(resp, key)) : IsAddressItem(ListOf(resp, key)[i])

\* the characters of a query the claim names, and how each must be sent
NamedReserved == {" ", ",", "/", "?", "#", "&"}
SentAs(c) ==
    CASE c = " " -> "%20"
      [] c = "," -> "%2C"
      [] c = "/" -> "%2F"
      [] c = "?" -> "%3F"
      [] c = "#" -> "%23"
      [] c = "&" -> "%26"
      [] OTHER -> c

SEARCH_TEMPLATE == <<"https://kalender.renovasjonsportal.no/api", "/address/">>

-----------------------------------------------------------------------------
(* C11 *)

\* C11: for a search response whose lists hold documented items,
\* search_address returns the items of searchResults followed by those of
\* alternateSearchResults, each list in its order, as many results as both
\* lists have items; each result has the item's id and title, and the item's
\* subTitle as municipality, the empty string when the item has no subTitle.
C11_SearchConcatenatesBothLists ==
    (Called("search_address") /\ IsSearchResponse(response)) =>
        LET primary == ListOf(response, "searchResults")
            alternate == ListOf(response, "alternateSearchResults")
            out == result.out
        IN  /\ out.ok
            /\ Len(out.value) = Len(primary) + Len(alternate)
            /\ \A i \in 1..Len(primary) : out.value[i] = AddressOf(primary[i])
            /\ \A j \in 1..Len(alternate) :
                  out.value[Len(primary) + j] = AddressOf(alternate[j])
            /\ \A i \in 1..Len(out.value) :
                  out.value[i].municipality = "" <=>
                      \/ i <= Len(primary) /\ "subTitle" \notin DOMAIN primary[i]
                      \/ i > Len(primary)
                         /\ "subTitle" \notin DOMAIN alternate[i - Len(primary)]

\* two primary items and an alternate one without subTitle: three results, the
\* last with an empty municipality
C11_Witness ==
    /\ Called("search_address")
    /\ IsSearchResponse(response)
    /\ Len(ListOf(response, "searchResults")) = 2
    /\ ListOf(response, "searchResults")[1] # ListOf(response, "searchResults")[2]
    /\ Len(ListOf(response, "alternateSearchResults")) = 1
    /\ result.out.ok
    /\ Len(result.out.value) = 3
    /\ result.out.value[3].municipality = ""
    /\ result.out.value[1].municipality = "Kristiansund kommune"

-----------------------------------------------------------------------------
(* C12 *)

\* C12: search_address returns the empty sequence when the remote answers with
\* both result lists empty or absent, and get_disposals returns the empty
\* sequence when `disposals` is absent or empty; neither raises.
C12_EmptyResultIsSuccess ==
    /\ (Called("search_address") /\ IsJsonObjectResponse(response)
          /\ \A key \in {"searchResults", "alternateSearchResults"} :
                key \in DOMAIN response.body => response.body[key] = List(<<>>))
          => result.out = Ok(<<>>)
    /\ (Called("get_disposals") /\ IsJsonObjectResponse(response)
          /\ ("disposals" \in DOMAIN response.body
                => response.body.disposals = List(<<>>)))
          => result.out = Ok(<<>>)

\* both lists are there and empty, and search_address has returned no result
C12_Witness ==
    /\ Called("search_address")
    /\ IsJsonObjectResponse(response)
    /\ DOMAIN response.body = {"searchResults", "alternateSearchResults"}
    /\ response.body.searchResults = List(<<>>)
    /\ response.body.alternateSearchResults = List(<<>>)
    /\ result.out = Ok(<<>>)

-----------------------------------------------------------------------------
(* C13 *)

\* C13: the URL search_address requests is the search template followed by
\* the query, piece by piece, with every space, comma, slash, '?', '#' and '&'
\* sent percent-encoded and none of them sent as it is; 'Storgata 1, Oslo' is
\* sent as 'Storgata%201%2C%20Oslo'. Nothing of the query lands in the path
\* before it and no '?' or '&' adds a parameter.
C13_QueryIsPercentEncoded ==
    Called("search_address") =>
        LET url == result.url
            query == result.query
        IN  /\ Len(url) = Len(SEARCH_TEMPLATE) + Len(query)
            /\ SubSeq(url, 1, Len(SEARCH_TEMPLATE)) = SEARCH_TEMPLATE
            /\ \A i \in 1..Len(query) :
                  LET sent == url[Len(SEARCH_TEMPLATE) + i]
                  IN  /\ sent \notin NamedReserved
                      /\ query[i] \in NamedReserved => sent = SentAs(query[i])
                      /\ query[i] \in Words => sent = query[i]
                      /\ \A j \in 1..Len(query) :
                            url[Len(SEARCH_TEMPLATE) + j] = sent => query[j] = query[i]
            /\ query = EXAMPLE_QUERY =>
                  url = SEARCH_TEMPLATE \o <<"Storgata", "%20", "1", "%2C", "%20", "Oslo">>

\* a query with a slash, a '?' and an '&' has been sent with all three encoded
C13_Witness ==
    /\ Called("search_address")
    /\ result.query = <<"/", "?", "&">>
    /\ result.url = SEARCH_TEMPLATE \o <<"%2F", "%3F", "%26">>

-----------------------------------------------------------------------------
(* C16 *)

\* C16: whatever search_address, get_disposals or get_disposals_by_fraction
\* raises is a RenovasjonApiError (the class itself, RenovasjonConnectionError
\* or RenovasjonAddressNotFoundError), also when the remote answers 2xx with a
\* payload of an unexpected shape.
C16_EveryFailureIsOfTheFamily ==
    (result # None /\ ~result.out.ok) =>
        isinstance(result.out.raised, "RenovasjonApiError")

-----------------------------------------------------------------------------
(* C14 *)

\* C14: read while the coordinator holds no snapshot, the fraction sensor's
\* value is None, its attributes are the fraction and nothing else (no
\* address, no municipality, no days_until, no dates), and the
\* collection-today binary sensor's state is None.
C14_NoSnapshotReadsAreEmpty ==
    (answer # None /\ "snapshot" \in DOMAIN answer /\ answer.snapshot = None) =>
        /\ answer.call = "native_value" => answer.value = None
        /\ answer.call = "is_on" => answer.value = None
        /\ answer.call = "extra_state_attributes" =>
              /\ DOMAIN answer.value = {"fraction"}
              /\ answer.value.fraction = answer.fraction

\* the first refresh has failed and the attributes have been read
C14_Witness ==
    /\ data = None
    /\ FetchFailed(result)
    /\ Answered("extra_state_attributes")
    /\ answer.snapshot = None
    /\ answer.value = [fraction |-> "Restavfall"]

-----------------------------------------------------------------------------
(* C15 *)

\* the snapshot a finished refresh built: the coordinator's identity fields,
\* what the refresh fetched, and the time the refresh ended at
BuiltBy(refresh) ==
    [address_id |-> ENTRY_DATA.address_id,
     address_name |-> ENTRY_DATA.address_name,
     municipality |-> ENTRY_DATA.municipality,
     disposals_by_fraction |-> refresh.fetched.value,
     last_update |-> refresh.at]

\* the refreshes that have published a snapshot
Published == {i \in 1..Len(pending) : pending[i].state = "done" /\ pending[i].ref > 0}

\* C15: however refreshes of one coordinator and a reader interleave, every
\* snapshot object is what one refresh built (identity fields, mapping and
\* timestamp of that refresh) and stays so after its publication, each
\* successful refresh has an object of its own, the coordinator holds the
\* object of one of them, and what a reader read field by field off the object
\* it took is that one complete snapshot.
C15_SnapshotReplacementIsAtomic ==
    /\ \A i \in Published :
          /\ pending[i].ref \in 1..Len(heap)
          /\ heap[pending[i].ref] = BuiltBy(pending[i])
          /\ \A j \in Published : pending[j].ref = pending[i].ref => j = i
    /\ Cardinality(Published) = Len(heap)
    /\ data # None => \E i \in Published : data = Ref(pending[i].ref)
    /\ (answer # None /\ answer.call = "read" /\ answer.taken # None) =>
          \E i \in Published :
              /\ answer.taken = Ref(pending[i].ref)
              /\ answer.seen = <<BuiltBy(pending[i]).address_id,
                                 BuiltBy(pending[i]).disposals_by_fraction,
                                 BuiltBy(pending[i]).last_update>>

\* two refreshes overlapped; a reader took the snapshot of the first, the
\* second published another one on a later day, and the reader then finished
\* reading the first
C15_Witness ==
    /\ answer # None /\ answer.call = "read" /\ answer.taken # None
    /\ Len(heap) = 2
    /\ data = Ref(2)
    /\ answer.taken = Ref(1)
    /\ heap[1].disposals_by_fraction # heap[2].disposals_by_fraction
    /\ heap[1].last_update # heap[2].last_update
    /\ answer.seen[2] = heap[1].disposals_by_fraction
    /\ answer.seen[3] = heap[1].last_update

-----------------------------------------------------------------------------
(* config_flow.py: RenovasjonConfigFlow, the setup and reconfigure wizards *)
(* SpecFlow: flows started, submitted and finished in any interleaving *)

\* flows in progress at the same time
MaxFlows == 2
\* config entries of the integration
MaxEntries == 2

FlowIds == 1..MaxFlows
\* the id the flow manager gives the next flow: the least one not in progress
NextFlowId == CHOOSE f \in FlowIds \ DOMAIN flows :
                 \A g \in FlowIds \ DOMAIN flows : f <= g
EntryIds == 1..MaxEntries

\* what the remote answers a wizard's search with
FlowSearchResponses ==
    {[kind |-> "timeout", status |-> 0, ctype |-> "", body |-> NoBody],
     [kind |-> "http", status |-> 500, ctype |-> "text/html", body |-> NoBody],
     [kind |-> "http", status |-> 200, ctype |-> "application/json",
      body |-> List(<<>>)]}
    \cup {[kind |-> "http", status |-> 200, ctype |-> "application/json",
           body |-> [searchResults |-> List(s)]] :
            s \in {<<>>,
                   <<[id |-> "8c098e45", title |-> "Sigden 6",
                      subTitle |-> "Kristiansund kommune"],
                     [id |-> "1f0e7d2a", title |-> "Storgata 1"]>>}}

\* what the remote answers a wizard's validating request with
FlowDetailsResponses ==
    {[kind |-> "connect_error", status |-> 0, ctype |-> "", body |-> NoBody],
     [kind |-> "http", status |-> 404, ctype |-> "text/html", body |-> NoBody],
     [kind |-> "http", status |-> 200, ctype |-> "application/json",
      body |-> [disposals |-> None]],
     [kind |-> "http", status |-> 200, ctype |-> "application/json",
      body |-> [disposals |-> List(<<>>)]],
     [kind |-> "http", status |-> 200, ctype |-> "application/json",
      body |-> [disposals |-> List(<<[date |-> IsoString(1, 0, ""),
                                      fraction |-> "Restavfall"]>>)]]}

\* the ids a select form is submitted with: the last one is in no result list
SubmittedIds == {"8c098e45", "1f0e7d2a", "5b3c9a10"}

\* what `await client.search_address(self._search_query)` ends in
FlowFound == {search_address(EXAMPLE_QUERY, resp) : resp \in FlowSearchResponses}

\* what `await client.get_disposals(selected_address.id)` ends in
FlowDisposals ==
    [id \in SubmittedIds |->
        {get_disposals(id, resp) : resp \in FlowDetailsResponses}]

\* self.async_show_form(step_id=..., errors=...)
async_show_form(step_id, errors) ==
    [type |-> "form", step_id |-> step_id, errors |-> errors]

\* self.async_create_entry(title=..., data=...)
async_create_entry(title, entry_data) ==
    [type |-> "create_entry", title |-> title, data |-> entry_data]

\* an AbortFlow(reason), as the flow manager hands it to the caller
async_abort(reason) == [type |-> "abort", reason |-> reason]

\* RenovasjonConfigFlow(): the handler of a flow just started, with the
\* context the flow manager gave it; `awaiting` holds the selected address
\* while a select step awaits get_disposals
RenovasjonConfigFlow(context, step_id) ==
    [context |-> context, cur_step |-> step_id,
     _addresses |-> <<>>, _search_query |-> <<>>, awaiting |-> None]

\* the except clauses of the search steps
search_errors_api_error_first(raised) ==
    IF isinstance(raised, "RenovasjonApiError") THEN [base |-> "unknown"]
    ELSE IF isinstance(raised, "RenovasjonConnectionError")
    THEN [base |-> "cannot_connect"]
    ELSE [base |-> "unknown"]

search_errors(raised) ==
    IF isinstance(raised, "RenovasjonConnectionError")
    THEN [base |-> "cannot_connect"]
    ELSE IF isinstance(raised, "RenovasjonApiError") THEN [base |-> "unknown"]
    ELSE [base |-> "unknown"]

\* the except clauses around the validating get_disposals
validation_errors_connection_only(raised) ==
    IF isinstance(raised, "RenovasjonConnectionError")
    THEN [base |-> "cannot_connect"]
    ELSE <<>>

validation_errors(raised) ==
    IF isinstance(raised, "RenovasjonConnectionError")
    THEN [base |-> "cannot_connect"]
    ELSE IF isinstance(raised, "RenovasjonApiError") THEN [base |-> "unknown"]
    ELSE [base |-> "unknown"]

\* `for addr in self._addresses: if addr.id == selected_id: ... break`
find_address(addresses, selected_id) ==
    LET hits == {i \in 1..Len(addresses) : addresses[i].id = selected_id}
    IN  IF hits = {} THEN None
        ELSE addresses[CHOOSE i \in hits : \A j \in hits : i <= j]

\* f"{selected_address.title}, {selected_address.municipality}"
entry_title(selected_address) ==
    <<selected_address.title, ", ", selected_address.municipality>>

\* {CONF_ADDRESS_ID: ..., CONF_ADDRESS_NAME: ..., CONF_MUNICIPALITY: ...}
entry_data(selected_address) ==
    [address_id |-> selected_address.id,
     address_name |-> selected_address.title,
     municipality |-> selected_address.municipality]

\* the other flows of the handler whose context holds that unique id
in_progress_with(f, unique_id) ==
    {g \in DOMAIN flows \ {f} :
        /\ "unique_id" \in DOMAIN flows[g].context
        /\ flows[g].context.unique_id = unique_id}

\* the entries of the integration with that unique id
entries_with(unique_id) ==
    {e \in DOMAIN entries : entries[e].unique_id = unique_id}

\* await self.async_set_unique_id(selected_address.id) and
\* self._abort_if_unique_id_configured(): the reason they abort the flow
\* with, "" when they let it go on
abort_reason(f, unique_id) ==
    IF in_progress_with(f, unique_id) # {} THEN "already_in_progress"
    ELSE IF entries_with(unique_id) # {} THEN "already_configured"
    ELSE ""

\* self.context["unique_id"] = unique_id
with_unique_id(context, unique_id) ==
    [k \in DOMAIN context \cup {"unique_id"} |->
        IF k = "unique_id" THEN unique_id ELSE context[k]]

\* the flows in progress once those of `gone` have ended
flows_without(gone) == [g \in DOMAIN flows \ gone |-> flows[g]]

\* a step of flow f has returned `out`, or is suspended in get_disposals
\* and has returned nothing yet (None)
StepResult(call, f, user_input, fetched, out) ==
    [call |-> call, flow |-> f, source |-> flows[f].context.source,
     user_input |-> user_input, addresses |-> flows[f]._addresses,
     fetched |-> fetched, out |-> out]

\* the search step of either wizard, submitted with a query: search_address
\* has ended in `found`
SearchStep(call, f, step_id, select_step, found) ==
    LET user_input == [address |-> EXAMPLE_QUERY]
        errors ==
            IF ~found.ok THEN search_errors(found.raised)
            ELSE IF found.value = <<>> THEN [address |-> "no_addresses_found"]
            ELSE <<>>
        found_some == found.ok /\ found.value # <<>>
    IN  /\ flows' = [flows EXCEPT
              ![f]._search_query = user_input.address,
              ![f]._addresses = IF found.ok THEN found.value ELSE @,
              ![f].cur_step = IF found_some THEN select_step ELSE step_id]
        /\ result' = StepResult(call, f, user_input, found,
              IF found_some THEN async_show_form(select_step, <<>>)
              ELSE async_show_form(step_id, errors))

\* the user starts the setup wizard: async_step_user(None) shows the form
StartUserFlow(f) ==
    /\ FlowIds \ DOMAIN flows # {}
    /\ f = NextFlowId
    /\ Cardinality(DOMAIN entries)
         + Cardinality({g \in DOMAIN flows : flows[g].context.source = "user"})
         < MaxEntries
    /\ flows' = [g \in DOMAIN flows \cup {f} |->
                    IF g = f
                    THEN RenovasjonConfigFlow([source |-> "user"], "user")
                    ELSE flows[g]]
    /\ result' = [call |-> "async_step_user", flow |-> f, source |-> "user",
                  user_input |-> None, addresses |-> <<>>, fetched |-> None,
                  out |-> async_show_form("user", <<>>)]
    /\ UNCHANGED <<now, response, data, last_update_success, last_exception,
                   returned, reader, answer, object_vars, entities, entries, hass_data>>

\* async_step_user(user_input)
StepUser(f, found) ==
    /\ f \in DOMAIN flows
    /\ flows[f].cur_step = "user"
    /\ SearchStep("async_step_user", f, "user", "select", found)
    /\ UNCHANGED <<now, response, data, last_update_success, last_exception,
                   returned, reader, answer, object_vars, entities, entries, hass_data>>

\* async_step_select(user_input), up to its await of get_disposals
SubmitSelect(f, selected_id) ==
    /\ f \in DOMAIN flows
    /\ flows[f].cur_step = "select"
    /\ flows[f].awaiting = None
    /\ LET user_input == [address_id |-> selected_id]
           selected_address == find_address(flows[f]._addresses, selected_id)
           reason == abort_reason(f, selected_id)
       IN  IF selected_address = None
           THEN /\ result' = StepResult("async_step_select", f, user_input, None,
                      async_show_form("select", [base |-> "invalid_address"]))
                /\ UNCHANGED flows
           ELSE IF reason # ""
           THEN /\ result' = StepResult("async_step_select", f, user_input, None,
                      async_abort(reason))
                /\ flows' = flows_without({f})
           ELSE /\ flows' = [flows EXCEPT
                      ![f].context = with_unique_id(@, selected_address.id),
                      ![f].awaiting = selected_address]
                /\ result' = StepResult("async_step_select", f, user_input, None,
                      None)
    /\ UNCHANGED <<now, response, data, last_update_success, last_exception,
                   returned, reader, answer, object_vars, entities, entries, hass_data>>

\* the flow manager finishes flow f with a new entry: the other flows holding
\* its unique id are aborted, an entry holding it is replaced (and the
\* reconfigure flows of that entry end with it)
finish_flow(f, title, new_data) ==
    LET unique_id == flows[f].context.unique_id
        replaced == entries_with(unique_id)
        orphaned == {g \in DOMAIN flows :
                        /\ flows[g].context.source = "reconfigure"
                        /\ flows[g].context.entry_id \in replaced}
        kept == DOMAIN entries \ replaced
        entry_id == CHOOSE e \in EntryIds \ DOMAIN entries : TRUE
    IN  /\ entries' = [e \in kept \cup {entry_id} |->
                          IF e = entry_id
                          THEN [unique_id |-> unique_id, title |-> title,
                                data |-> new_data, options |-> <<>>]
                          ELSE entries[e]]
        /\ flows' = flows_without({f} \cup in_progress_with(f, unique_id)
                                      \cup orphaned)

\* async_step_select(user_input), from get_disposals' end on
FinishSelect(f, disposals) ==
    /\ f \in DOMAIN flows
    /\ flows[f].cur_step = "select"
    /\ flows[f].awaiting # None
    /\ disposals \in FlowDisposals[flows[f].awaiting.id]
    /\ LET selected_address == flows[f].awaiting
           user_input == [address_id |-> selected_address.id]
           errors == IF disposals.ok THEN <<>>
                     ELSE validation_errors(disposals.raised)
       IN  IF DOMAIN errors = {}
           THEN /\ result' = StepResult("async_step_select", f, user_input,
                      disposals,
                      async_create_entry(entry_title(selected_address),
                                         entry_data(selected_address)))
                /\ finish_flow(f, entry_title(selected_address),
                               entry_data(selected_address))
           ELSE /\ result' = StepResult("async_step_select", f, user_input,
                      disposals, async_show_form("select", errors))
                /\ flows' = [flows EXCEPT ![f].awaiting = None]
                /\ UNCHANGED entries
    /\ UNCHANGED <<now, response, data, last_update_success, last_exception,
                   returned, reader, answer, object_vars, entities, hass_data>>

\* the user starts the reconfigure wizard of an entry:
\* async_step_reconfigure(None) shows the form
StartReconfigureFlow(f, entry_id) ==
    /\ FlowIds \ DOMAIN flows # {}
    /\ f = NextFlowId
    /\ entry_id \in DOMAIN entries
    /\ flows' = [g \in DOMAIN flows \cup {f} |->
                    IF g = f
                    THEN RenovasjonConfigFlow(
                            [source |-> "reconfigure", entry_id |-> entry_id],
                            "reconfigure")
                    ELSE flows[g]]
    /\ result' = [call |-> "async_step_reconfigure", flow |-> f,
                  source |-> "reconfigure",
                  user_input |-> None, addresses |-> <<>>, fetched |-> None,
                  out |-> async_show_form("reconfigure", <<>>)]
    /\ UNCHANGED <<now, response, data, last_update_success, last_exception,
                   returned, reader, answer, object_vars, entities, entries, hass_data>>

\* async_step_reconfigure(user_input)
StepReconfigure(f, found) ==
    /\ f \in DOMAIN flows
    /\ flows[f].cur_step = "reconfigure"
    /\ SearchStep("async_step_reconfigure", f, "reconfigure",
                  "reconfigure_select", found)
    /\ UNCHANGED <<now, response, data, last_update_success, last_exception,
                   returned, reader, answer, object_vars, entities, entries, hass_data>>

\* async_step_reconfigure_select(user_input), up to its await of get_disposals
SubmitReconfigureSelect(f, selected_id) ==
    /\ f \in DOMAIN flows
    /\ flows[f].cur_step = "reconfigure_select"
    /\ flows[f].awaiting = None
    /\ LET user_input == [address_id |-> selected_id]
           reconfigure_entry == entries[flows[f].context.entry_id]
           selected_address == find_address(flows[f]._addresses, selected_id)
           checked == selected_id # reconfigure_entry.unique_id
           reason == IF checked THEN abort_reason(f, selected_id) ELSE ""
       IN  IF selected_address = None
           THEN /\ result' = StepResult("async_step_reconfigure_select", f,
                      user_input, None,
                      async_show_form("reconfigure_select",
                                      [base |-> "invalid_address"]))
                /\ UNCHANGED flows
           ELSE IF reason # ""
           THEN /\ result' = StepResult("async_step_reconfigure_select", f,
                      user_input, None, async_abort(reason))
                /\ flows' = flows_without({f})
           ELSE /\ flows' = [flows EXCEPT
                      ![f].context =
                          IF checked THEN with_unique_id(@, selected_address.id)
                          ELSE @,
                      ![f].awaiting = selected_address]
                /\ result' = StepResult("async_step_reconfigure_select", f,
                      user_input, None, None)
    /\ UNCHANGED <<now, response, data, last_update_success, last_exception,
                   returned, reader, answer, object_vars, entities, entries, hass_data>>

\* an update of the entry that passes on title and data and leaves the
\* unique id as it was
update_reload_and_abort_keeping_unique_id(f, entry_id, unique_id, title, new_data) ==
    /\ entries' = [entries EXCEPT ![entry_id].title = title,
                                  ![entry_id].data = new_data]
    /\ flows' = flows_without({f})

\* self.async_update_reload_and_abort(entry, unique_id=..., title=...,
\* data=...): the entry is updated as told
async_update_reload_and_abort(f, entry_id, unique_id, title, new_data) ==
    /\ entries' = [entries EXCEPT ![entry_id].unique_id = unique_id,
                                  ![entry_id].title = title,
                                  ![entry_id].data = new_data]
    /\ flows' = flows_without({f})

\* async_step_reconfigure_select(user_input), from get_disposals' end on
FinishReconfigureSelect(f, disposals) ==
    /\ f \in DOMAIN flows
    /\ flows[f].cur_step = "reconfigure_select"
    /\ flows[f].awaiting # None
    /\ disposals \in FlowDisposals[flows[f].awaiting.id]
    /\ LET selected_address == flows[f].awaiting
           user_input == [address_id |-> selected_address.id]
           errors == IF disposals.ok THEN <<>>
                     ELSE validation_errors(disposals.raised)
       IN  IF DOMAIN errors = {}
           THEN /\ result' = StepResult("async_step_reconfigure_select", f,
                      user_input, disposals,
                      async_abort("reconfigure_successful"))
                /\ async_update_reload_and_abort(f, flows[f].context.entry_id,
                      selected_address.id, entry_title(selected_address),
                      entry_data(selected_address))
           ELSE /\ result' = StepResult("async_step_reconfigure_select", f,
                      user_input, disposals,
                      async_show_form("reconfigure_select", errors))
                /\ flows' = [flows EXCEPT ![f].awaiting = None]
                /\ UNCHANGED entries
    /\ UNCHANGED <<now, response, data, last_update_success, last_exception,
                   returned, reader, answer, object_vars, entities, hass_data>>

NextFlow ==
    \/ \E f \in FlowIds : StartUserFlow(f)
    \/ \E f \in FlowIds, found \in FlowFound : StepUser(f, found)
    \/ \E f \in FlowIds, selected_id \in SubmittedIds : SubmitSelect(f, selected_id)
    \/ \E f \in FlowIds, disposals \in UNION {FlowDisposals[id] : id \in SubmittedIds} :
          FinishSelect(f, disposals)
    \/ \E f \in FlowIds, entry_id \in EntryIds : StartReconfigureFlow(f, entry_id)
    \/ \E f \in FlowIds, found \in FlowFound : StepReconfigure(f, found)
    \/ \E f \in FlowIds, selected_id \in SubmittedIds :
          SubmitReconfigureSelect(f, selected_id)
    \/ \E f \in FlowIds, disposals \in UNION {FlowDisposals[id] : id \in SubmittedIds} :
          FinishReconfigureSelect(f, disposals)

SpecFlow == Init /\ [][NextFlow]_vars

\* SpecWizard: the same wizards, one flow at a time
NextWizard ==
    \/ flows = <<>> /\ StartUserFlow(1)
    \/ \E found \in FlowFound : StepUser(1, found)
    \/ \E selected_id \in SubmittedIds : SubmitSelect(1, selected_id)
    \/ \E disposals \in UNION {FlowDisposals[id] : id \in SubmittedIds} :
          FinishSelect(1, disposals)
    \/ \E entry_id \in EntryIds : flows = <<>> /\ StartReconfigureFlow(1, entry_id)
    \/ \E found \in FlowFound : StepReconfigure(1, found)
    \/ \E selected_id \in SubmittedIds : SubmitReconfigureSelect(1, selected_id)
    \/ \E disposals \in UNION {FlowDisposals[id] : id \in SubmittedIds} :
          FinishReconfigureSelect(1, disposals)

SpecWizard == Init /\ [][NextWizard]_vars

-----------------------------------------------------------------------------
(* Vocabulary of the claims about the wizards (SpecFlow) *)

\* a step of that name has been submitted with input and has returned
Submitted(name) ==
    /\ result # None /\ result.call = name
    /\ result.user_input # None /\ result.out # None

ShowsForm(out, step_id) == out.type = "form" /\ out.step_id = step_id

NoErrors(out) == DOMAIN out.errors = {}
OnlyError(out, key, value) ==
    DOMAIN out.errors = {key} /\ out.errors[key] = value

\* the addresses of the list that carry the submitted id
Carrying(addresses, id) == {i \in 1..Len(addresses) : addresses[i].id = id}

-----------------------------------------------------------------------------
(* C17 *)

\* what a submitted user step returned, by what search_address ended in
UserStepOutcome ==
    Submitted("async_step_user") =>
        LET found == result.fetched
            out == result.out
        IN  /\ out.type = "form"
            /\ (found.ok /\ found.value # <<>>) =>
                  /\ ShowsForm(out, "select") /\ NoErrors(out)
                  /\ result.flow \in DOMAIN flows
                  /\ flows[result.flow].cur_step = "select"
                  /\ flows[result.flow]._addresses = found.value
            /\ (found.ok /\ found.value = <<>>) =>
                  /\ ShowsForm(out, "user")
                  /\ OnlyError(out, "address", "no_addresses_found")
            /\ (~found.ok /\ isinstance(found.raised, "RenovasjonConnectionError")) =>
                  /\ ShowsForm(out, "user")
                  /\ OnlyError(out, "base", "cannot_connect")
            /\ (~found.ok /\ ~isinstance(found.raised, "RenovasjonConnectionError")) =>
                  /\ ShowsForm(out, "user")
                  /\ OnlyError(out, "base", "unknown")

\* a user step that returns leaves the entries as they were
UserStepKeepsEntries ==
    (result' # None /\ result'.call = "async_step_user" /\ result'.out # None) =>
        entries' = entries

\* C17: whatever search_address ends in, the submitted user step returns one
\* form: the select form when addresses were found (and the flow is then at
\* the select step, holding them), the user form with errors['address'] =
\* 'no_addresses_found' when none was found, with errors['base'] =
\* 'cannot_connect' when RenovasjonConnectionError was raised and with
\* errors['base'] = 'unknown' when anything else was raised; and the step
\* neither creates nor changes a config entry.
C17_SearchStepMapsEveryOutcome ==
    []UserStepOutcome /\ [][UserStepKeepsEntries]_vars

\* the remote answered the search with a JSON list: the client raised an
\* AttributeError and the user form came back with 'unknown'
C17_Witness ==
    /\ Submitted("async_step_user")
    /\ ~result.fetched.ok
    /\ result.fetched.raised.exc = "AttributeError"
    /\ ShowsForm(result.out, "user")
    /\ OnlyError(result.out, "base", "unknown")

-----------------------------------------------------------------------------
(* C18 *)

\* what a submitted select step returned, by the id submitted and by what
\* get_disposals ended in
SelectStepOutcome ==
    Submitted("async_step_select") =>
        LET id == result.user_input.address_id
            hits == Carrying(result.addresses, id)
            validated == result.fetched
            out == result.out
        IN  /\ out.type = "create_entry" =>
                  /\ hits # {}
                  /\ validated # None /\ validated.ok
                  /\ \E i \in hits :
                        /\ \A j \in hits : i <= j
                        /\ out.title = <<result.addresses[i].title, ", ",
                                         result.addresses[i].municipality>>
                        /\ out.data =
                             [address_id |-> id,
                              address_name |-> result.addresses[i].title,
                              municipality |-> result.addresses[i].municipality]
            /\ (validated # None /\ validated.ok) => out.type = "create_entry"
            /\ hits = {} =>
                  /\ ShowsForm(out, "select")
                  /\ OnlyError(out, "base", "invalid_address")
            /\ (validated # None /\ ~validated.ok
                  /\ isinstance(validated.raised, "RenovasjonConnectionError")) =>
                  /\ ShowsForm(out, "select")
                  /\ OnlyError(out, "base", "cannot_connect")
            /\ (validated # None /\ ~validated.ok
                  /\ ~isinstance(validated.raised, "RenovasjonConnectionError")) =>
                  /\ ShowsForm(out, "select")
                  /\ OnlyError(out, "base", "unknown")

\* a select step that returns create_entry registers that entry and touches
\* no entry bound to another address; one that returns anything else leaves
\* the entries as they were
SelectStepRegisters ==
    (result' # None /\ result'.call = "async_step_select" /\ result'.out # None) =>
        IF result'.out.type = "create_entry"
        THEN \E e \in DOMAIN entries' \ DOMAIN entries :
                /\ entries'[e].title = result'.out.title
                /\ entries'[e].data = result'.out.data
                /\ \A other \in DOMAIN entries :
                      entries[other].unique_id # result'.out.data.address_id =>
                          /\ other \in DOMAIN entries'
                          /\ entries'[other] = entries[other]
        ELSE entries' = entries

\* C18: a submitted select step creates an entry only when the submitted id
\* is the id of an address in the flow's list and get_disposals for it
\* raised nothing, be the list of disposals empty or not; the entry created
\* has the title '<title>, <municipality>' and exactly the data address_id,
\* address_name and municipality of the first address with that id, and it
\* is registered. An id not in the list returns the select form with
\* 'invalid_address', a RenovasjonConnectionError with 'cannot_connect',
\* anything else raised with 'unknown', and a step that returns no
\* create_entry leaves the entries as they were.
C18_SelectStepCreatesOnlyValidated ==
    []SelectStepOutcome /\ [][SelectStepRegisters]_vars

\* the address selected has no collections scheduled and no municipality:
\* the entry is created all the same
C18_Witness ==
    /\ Submitted("async_step_select")
    /\ result.out.type = "create_entry"
    /\ result.fetched.ok /\ result.fetched.value = <<>>
    /\ result.out.title = <<"Storgata 1", ", ", "">>
    /\ \E e \in DOMAIN entries : entries[e].data = result.out.data

-----------------------------------------------------------------------------
(* C19 *)

\* C19: no two config entries are bound to the same address id, however the
\* setup and reconfigure flows interleave.
C19_NoTwoEntriesShareAnAddress ==
    \A e1, e2 \in DOMAIN entries :
        entries[e1].data.address_id = entries[e2].data.address_id => e1 = e2

-----------------------------------------------------------------------------
(* config_flow.py: RenovasjonOptionsFlow, and the refresh interval in use *)
(* SpecOptions: one entry set up, its options changed again and again *)

DEFAULT_UPDATE_INTERVAL_HOURS == 12
\* timedelta(hours=DEFAULT_UPDATE_INTERVAL_HOURS), in hours
UPDATE_INTERVAL == DEFAULT_UPDATE_INTERVAL_HOURS
CONF_UPDATE_INTERVAL == "update_interval"

\* the limits of the interval an operator may choose, in hours
MIN_UPDATE_INTERVAL == 1
MAX_UPDATE_INTERVAL == 48

\* What an options form is submitted with, in tenths of an hour: every whole
\* hour from 0 to 49 and some values between whole hours.
SubmittedIntervals ==
    {10 * h : h \in 0..(MAX_UPDATE_INTERVAL + 1)}
    \cup {-5, 5, 9, 15, 25, 485, 489, 495}

\* vol.Coerce(int) on a number of hours given in tenths: int() drops the
\* fraction, towards zero
Coerce_int(tenths) ==
    IF tenths >= 0 THEN tenths \div 10 ELSE 0 - ((0 - tenths) \div 10)

\* vol.Range(min=1, max=48)
Range_from_zero(hours) == 0 <= hours /\ hours <= MAX_UPDATE_INTERVAL

Range(hours) == MIN_UPDATE_INTERVAL <= hours /\ hours <= MAX_UPDATE_INTERVAL

\* the data_schema of the init form applied to a submission, as the flow
\* manager does before it calls the step: the validated input, or Invalid
data_schema(user_input) ==
    LET hours == Coerce_int(user_input[CONF_UPDATE_INTERVAL])
    IN  IF Range(hours) THEN Ok([update_interval |-> hours])
        ELSE Raise(Exc("Invalid", <<CONF_UPDATE_INTERVAL>>))

\* RenovasjonOptionsFlow.async_step_init(user_input) for the entry's options
async_step_init(options, user_input) ==
    IF user_input # None
    THEN async_create_entry(<<>>, user_input)
    ELSE [type |-> "form", step_id |-> "init",
          default |-> dict_get(options, CONF_UPDATE_INTERVAL,
                               DEFAULT_UPDATE_INTERVAL_HOURS)]

\* a coordinator that takes the municipality for the name of the address
RenovasjonCoordinator_naming_municipality(entry) ==
    [update_interval |-> UPDATE_INTERVAL,
     _address_id |-> entry.data.address_id,
     _address_name |-> entry.data.municipality,
     _municipality |-> entry.data.municipality]

\* RenovasjonCoordinator(hass, entry): the refresh interval and the identity
\* fields it starts with
RenovasjonCoordinator(entry) ==
    [update_interval |-> UPDATE_INTERVAL,
     _address_id |-> entry.data.address_id,
     _address_name |-> entry.data.address_name,
     _municipality |-> entry.data.municipality]

\* async_setup_entry(hass, entry): the coordinator stored in hass.data for the
\* entry, refreshing at the interval of the entry's options
async_setup_entry(entry) ==
    [RenovasjonCoordinator(entry) EXCEPT
        !.update_interval = dict_get(entry.options, CONF_UPDATE_INTERVAL,
                                     DEFAULT_UPDATE_INTERVAL_HOURS)]

\* the update listener of the entry: the entry is set up again
async_update_options(entry) == async_setup_entry(entry)

\* the setup wizard has created the entry and the integration sets it up
AddEntry ==
    /\ entries = <<>>
    /\ LET entry == [unique_id |-> ENTRY_DATA.address_id,
                     title |-> <<ENTRY_DATA.address_name, ", ",
                                 ENTRY_DATA.municipality>>,
                     data |-> ENTRY_DATA,
                     options |-> <<>>]
       IN  /\ entries' = <<entry>>
           /\ hass_data' = <<async_setup_entry(entry)>>
    /\ result' = [call |-> "async_setup_entry", flow |-> 0, entry_id |-> 1,
                  user_input |-> None, out |-> None]
    /\ UNCHANGED <<now, response, data, last_update_success, last_exception,
                   returned, reader, answer, object_vars, entities, flows>>

\* the operator opens the options of an entry: async_step_init(None)
StartOptionsFlow(f, entry_id) ==
    /\ FlowIds \ DOMAIN flows # {}
    /\ f = NextFlowId
    /\ entry_id \in DOMAIN entries
    /\ flows' = [g \in DOMAIN flows \cup {f} |->
                    IF g = f THEN [entry_id |-> entry_id, cur_step |-> "init"]
                    ELSE flows[g]]
    /\ result' = [call |-> "async_step_init", flow |-> f, entry_id |-> entry_id,
                  user_input |-> None,
                  out |-> async_step_init(entries[entry_id].options, None)]
    /\ UNCHANGED <<now, response, data, last_update_success, last_exception,
                   returned, reader, answer, object_vars, entities, entries, hass_data>>

\* the operator submits the init form: the flow manager validates the input
\* against the form's schema, async_step_init(user_input) returns the entry's
\* new options, the flow manager stores them and the update listener runs
SubmitOptions(f, tenths) ==
    /\ f \in DOMAIN flows
    /\ flows[f].cur_step = "init"
    /\ LET entry_id == flows[f].entry_id
           submitted == [update_interval |-> tenths]
           validated == data_schema(submitted)
       IN  IF validated.ok
           THEN LET out == async_step_init(entries[entry_id].options,
                                           validated.value)
                    entry == [entries[entry_id] EXCEPT !.options = out.data]
                IN  /\ result' = [call |-> "async_step_init", flow |-> f,
                                  entry_id |-> entry_id,
                                  user_input |-> submitted, out |-> out]
                    /\ entries' = [entries EXCEPT ![entry_id] = entry]
                    /\ hass_data' = [hass_data EXCEPT
                                        ![entry_id] = async_update_options(entry)]
                    /\ flows' = flows_without({f})
           ELSE /\ result' = [call |-> "async_step_init", flow |-> f,
                              entry_id |-> entry_id,
                              user_input |-> submitted,
                              out |-> [type |-> "invalid",
                                       raised |-> validated.raised]]
                /\ UNCHANGED <<entries, hass_data, flows>>
    /\ UNCHANGED <<now, response, data, last_update_success, last_exception,
                   returned, reader, answer, object_vars, entities>>

NextOptions ==
    \/ AddEntry
    \/ \E f \in FlowIds, entry_id \in EntryIds : StartOptionsFlow(f, entry_id)
    \/ \E f \in FlowIds, tenths \in SubmittedIntervals : SubmitOptions(f, tenths)

SpecOptions == Init /\ [][NextOptions]_vars

-----------------------------------------------------------------------------
(* C20 *)

\* a submission of the options form that the flow accepted
Accepted ==
    /\ Submitted("async_step_init")
    /\ result.out.type = "create_entry"

-----------------------------------------------------------------------------
(* SpecPlatform: the two platforms are set up, each after a first refresh of *)
(* the coordinator; later the timer refreshes, the clock advances and the    *)
(* state machine reads the entities                                          *)

\* the entity objects one platform builds, one per key in keys
RECURSIVE entities_of(_, _)
\* the loop of async_setup_entry over coordinator.data.fractions, appending
\* RenovasjonSensor(coordinator, fraction) or
\* RenovasjonCollectionTodaySensor(coordinator, fraction)
entities_of(platform, keys) ==
    IF keys = {} THEN <<>>
    ELSE LET fraction == CHOOSE f \in keys : TRUE
         IN  <<[platform |-> platform, fraction |-> fraction]>>
             \o entities_of(platform, keys \ {fraction})

\* what async_setup_entry hands to async_add_entities
Added(list) == [added |-> list]

\* async_config_entry_first_refresh raised out of async_setup_entry
ConfigEntryNotReady == [raised |-> "ConfigEntryNotReady"]

\* async_setup_entry of a platform, after its first refresh: one entity per
\* fraction of the snapshot, none when there is no snapshot
platform_entities(platform, coordinator_data) ==
    IF coordinator_data # None
    THEN Added(entities_of(platform, fractions(coordinator_data)))
    ELSE Added(<<>>)

\* what the remote answers the refreshes of the platforms and of the timer
\* with
PlatformResponses ==
    {[kind |-> "timeout", status |-> 0, ctype |-> "", body |-> NoBody]}
    \cup {[kind |-> "http", status |-> 200, ctype |-> "application/json",
           body |-> [disposals |-> List(items)]] :
            items \in {<<>>,
                       <<[date |-> IsoString(1, 0, ""), fraction |-> "Restavfall"]>>,
                       <<[date |-> IsoString(2, 0, ""), fraction |-> "Papir"]>>,
                       <<[date |-> IsoString(2, 0, ""), fraction |-> "Papir"],
                         [date |-> IsoString(1, 0, ""), fraction |-> "Restavfall"]>>}}

PlatformFetched ==
    {get_disposals_by_fraction(ENTRY_DATA.address_id, resp) :
        resp \in PlatformResponses}

\* one refresh of the coordinator, the client call ending in fetched
RefreshTo(fetched) ==
    LET r == _async_update_data(fetched, now)
    IN  /\ result' = [call |-> "get_disposals_by_fraction", out |-> fetched]
        /\ IF r.ok
           THEN /\ data' = r.value
                /\ returned' = r.value
                /\ last_update_success' = TRUE
                /\ last_exception' = None
           ELSE /\ data' = data
                /\ returned' = returned
                /\ last_update_success' = FALSE
                /\ last_exception' = r.raised

\* async_setup_entry of sensor.py and of binary_sensor.py. It awaits
\* coordinator.async_config_entry_first_refresh(), which refreshes and raises
\* ConfigEntryNotReady when the refresh failed; otherwise it builds the
\* entities from coordinator.data and adds them.
SetupPlatform(platform) ==
    /\ entities[platform] = None
    /\ \E fetched \in PlatformFetched :
          /\ RefreshTo(fetched)
          /\ entities' = [entities EXCEPT
                ![platform] = IF last_update_success'
                              THEN platform_entities(platform, data')
                              ELSE ConfigEntryNotReady]
    /\ UNCHANGED <<now, response, reader, answer, object_vars, setup_vars>>

SetupSensor == SetupPlatform("sensor")

SetupBinarySensor == SetupPlatform("binary_sensor")

\* both platforms have been set up
PlatformsSetUp == \A platform \in Platforms : entities[platform] # None

\* a refresh after which every platform adds an entity for each fraction of
\* the snapshot that has none yet
TimerRefreshAddingEntities ==
    /\ PlatformsSetUp
    /\ \E fetched \in PlatformFetched :
          /\ RefreshTo(fetched)
          /\ entities' =
                [platform \in Platforms |->
                    IF entities[platform] = ConfigEntryNotReady \/ data' = None
                    THEN entities[platform]
                    ELSE Added(entities[platform].added
                               \o entities_of(platform,
                                     fractions(data')
                                     \ {entities[platform].added[i].fraction :
                                          i \in 1..Len(entities[platform].added)}))]
    /\ UNCHANGED <<now, response, reader, answer, object_vars, setup_vars>>

\* the timer of the coordinator fires
TimerRefresh ==
    /\ PlatformsSetUp
    /\ \E fetched \in PlatformFetched : RefreshTo(fetched)
    /\ UNCHANGED <<now, response, reader, answer, object_vars, entities,
                   setup_vars>>

\* the fractions of the entities a platform added
EntityFractions(platform) ==
    IF entities[platform] = None \/ entities[platform] = ConfigEntryNotReady
    THEN {}
    ELSE {entities[platform].added[i].fraction :
            i \in 1..Len(entities[platform].added)}

\* the state machine reads the date of a fraction sensor
EntityNativeValue ==
    \E fraction \in EntityFractions("sensor"), reads \in ClockReads :
        ReadProperty("native_value", native_value(fraction, data, reads),
                     fraction, reads)

\* the state machine reads a collection-today binary sensor
EntityIsOn ==
    \E fraction \in EntityFractions("binary_sensor"), reads \in ClockReads :
        ReadProperty("is_on", is_on(fraction, data, reads), fraction, reads)

NextPlatform ==
    \/ SetupSensor
    \/ SetupBinarySensor
    \/ TimerRefresh
    \/ Tick
    \/ EntityNativeValue
    \/ EntityIsOn

SpecPlatform == Init /\ [][NextPlatform]_vars

-----------------------------------------------------------------------------
(* Vocabulary of the claims about the platforms (SpecPlatform) *)

\* the entities a platform added, none when its setup raised
AddedBy(platform, ents) ==
    IF ents[platform] = None \/ ents[platform] = ConfigEntryNotReady
    THEN <<>>
    ELSE ents[platform].added

\* how many entities of a list are for the fraction
CountFor(list, fraction) ==
    Cardinality({i \in 1..Len(list) : list[i].fraction = fraction})

\* the list holds exactly one entity for each key of the snapshot and no other
OnePerFraction(list, snapshot) ==
    /\ \A fraction \in fractions(snapshot) : CountFor(list, fraction) = 1
    /\ \A i \in 1..Len(list) : list[i].fraction \in fractions(snapshot)

\* the step is the setup of the platform
SetsUp(platform) == entities[platform] = None /\ entities'[platform] # None

\* the setup of a platform leaves one entity per fraction of the snapshot
\* held after its first refresh, none without a snapshot
SetupCreatesOnePerFraction ==
    \A platform \in Platforms :
        SetsUp(platform) =>
            IF data' = None
            THEN AddedBy(platform, entities') = <<>>
            ELSE OnePerFraction(AddedBy(platform, entities'), data')

\* C21: every platform setup creates exactly one entity of its kind per
\* fraction key of the snapshot held after the first refresh, without
\* duplicates, and none when no snapshot is held.
C21_OneEntityPerFractionOfHeldSnapshot == [][SetupCreatesOnePerFraction]_vars

-----------------------------------------------------------------------------
(* SpecReads: a caller queries the held snapshot in any order and modifies *)
(* the lists it was handed                                                  *)

\* The identity of a list object: the list the snapshot stores for a
\* fraction, or a list built by the call.
Stored(fraction) == [obj |-> "stored", fraction |-> fraction]
NewList == [obj |-> "new"]

\* self.disposals_by_fraction.get(fraction, []): the stored list, or the
\* default built by the call
stored_or_default(self, fraction) ==
    IF fraction \in DOMAIN self.disposals_by_fraction
    THEN Stored(fraction)
    ELSE NewList

\* get_upcoming_disposals handing out the list the snapshot stores
upcoming_list_stored(self, fraction) == stored_or_default(self, fraction)

\* The list object get_upcoming_disposals returns: the comprehension over
\* disposals builds a list and upcoming[:limit] builds another.
upcoming_list(self, fraction) ==
    LET disposals == stored_or_default(self, fraction)
        upcoming == NewList
    IN  NewList

\* the keys of a mapping as a list
RECURSIVE list_of_keys(_)
list_of_keys(keys) ==
    IF keys = {} THEN <<>>
    ELSE LET key == CHOOSE k \in keys : TRUE
         IN  <<key>> \o list_of_keys(keys \ {key})

\* the first refresh, as the caller's coordinator makes it
PrimeSnapshot ==
    /\ data = None
    /\ \E fetched \in PlatformFetched : RefreshTo(fetched)
    /\ UNCHANGED <<now, response, reader, answer, object_vars, entities,
                   setup_vars>>

\* a caller takes get_upcoming_disposals(fraction, limit) and keeps the list
TakeUpcomingDisposals ==
    /\ data # None
    /\ reader = None
    /\ \E fraction \in Queried, limit \in Limits :
          answer' = [call |-> "get_upcoming_disposals", fraction |-> fraction,
                     limit |-> limit, now |-> now,
                     value |-> get_upcoming_disposals(data, fraction, limit, now),
                     list |-> upcoming_list(data, fraction),
                     modified |-> FALSE]
    /\ UNCHANGED <<now, response, result, data, last_update_success,
                   last_exception, returned, reader, object_vars, entities, setup_vars>>

\* a caller takes the property fractions: list(self.disposals_by_fraction.keys())
TakeFractions ==
    /\ data # None
    /\ reader = None
    /\ answer' = [call |-> "fractions", now |-> now,
                  value |-> list_of_keys(fractions(data)),
                  list |-> NewList,
                  modified |-> FALSE]
    /\ UNCHANGED <<now, response, result, data, last_update_success,
                   last_exception, returned, reader, object_vars, entities, setup_vars>>

\* the caller modifies the list it was handed (del value[0], or value.clear()
\* on an empty one); a list the snapshot stores changes with it
ModifyReturned ==
    /\ data # None
    /\ answer # None
    /\ "list" \in DOMAIN answer
    /\ ~answer.modified
    /\ answer' = [answer EXCEPT !.value = IF @ = <<>> THEN @ ELSE Tail(@),
                                !.modified = TRUE]
    /\ data' = IF answer.list = NewList
               THEN data
               ELSE [data EXCEPT
                       !.disposals_by_fraction[answer.list.fraction] =
                           IF @ = <<>> THEN @ ELSE Tail(@)]
    /\ UNCHANGED <<now, response, result, last_update_success, last_exception,
                   returned, reader, object_vars, entities, setup_vars>>

NextReads ==
    \/ PrimeSnapshot
    \/ Tick
    \/ CallGetNextDisposal
    \/ CallGetDaysUntil
    \/ ReturnDaysUntil
    \/ TakeUpcomingDisposals
    \/ TakeFractions
    \/ ModifyReturned

SpecReads == Init /\ [][NextReads]_vars

\* a step of a caller: a query, or a modification of what a query returned
CallerStep == answer' # answer \/ reader' # reader

\* the caller has modified a non-empty list that a query over a stored
\* sequence returned
ModifiedAnswer(call) ==
    /\ answer # None
    /\ answer.call = call
    /\ "list" \in DOMAIN answer
    /\ answer.modified

CallerLeavesSnapshot == CallerStep => data' = data

\* C22: the queries get_next_disposal, get_upcoming_disposals, get_days_until
\* and fractions, in any order and number, and a caller modifying the list
\* that get_upcoming_disposals or fractions returned, leave the held snapshot
\* (mapping, sequences, identity fields, timestamp) as it was.
C22_QueriesArePureReads == [][CallerLeavesSnapshot]_vars

\* the caller dropped the first element of the list get_upcoming_disposals
\* returned, and the snapshot still has the whole sequence
C22_Witness ==
    /\ ModifiedAnswer("get_upcoming_disposals")
    /\ answer.fraction \in fractions(data)
    /\ Len(answer.value) < Len(data.disposals_by_fraction[answer.fraction])
    /\ get_upcoming_disposals(data, answer.fraction, answer.limit, answer.now)
         # answer.value

-----------------------------------------------------------------------------
(* SpecLookup: one answer of the remote, given to a search_address call, to *)
(* a get_disposals call and to the search of a setup wizard                 *)

\* what the remote answers with: a transport failure, or a final response of
\* either endpoint with a status of every class
LookupResponses ==
    {[kind |-> k, status |-> 0, ctype |-> "", body |-> NoBody] :
        k \in {"timeout", "server_timeout", "connect_error"}}
    \cup {[kind |-> "http", status |-> st, ctype |-> "text/html", body |-> NoBody] :
            st \in {200, 301, 404, 500}}
    \cup {[kind |-> "http", status |-> st, ctype |-> "application/json", body |-> b] :
            st \in {200, 301, 404, 500},
            b \in {[searchResults |-> List(<<>>)],
                   [searchResults |->
                       List(<<[id |-> "8c098e45", title |-> "Sigden 6",
                               subTitle |-> "Kristiansund kommune"]>>)],
                   [disposals |->
                       List(<<[date |-> IsoString(1, 0, ""),
                               fraction |-> "Restavfall"]>>)]}}

InitLookup ==
    /\ response \in LookupResponses
    /\ InitCommon

\* the wizard's search is submitted and the remote answers it
LookupStepUser ==
    \E f \in DOMAIN flows :
        StepUser(f, search_address(EXAMPLE_QUERY, response))

NextLookup ==
    \/ CallSearchAddress(EXAMPLE_QUERY)
    \/ CallGetDisposals
    \/ \E f \in FlowIds : StartUserFlow(f)
    \/ LookupStepUser

SpecLookup == InitLookup /\ [][NextLookup]_vars

\* what a client call that went through _request ended in, by the status
RaisedByStatus(out) ==
    /\ (IsHttp(response) /\ response.status = 404)
          => RaisedExactly(out, "RenovasjonAddressNotFoundError")
    /\ (IsHttp(response) /\ response.status >= 400 /\ response.status # 404)
          => RaisedExactly(out, "RenovasjonApiError")

-----------------------------------------------------------------------------
(* C24 *)

\* the sequence holds an entry dated on the day
HasEntryOn(seq, day) == \E i \in 1..Len(seq) : date_of(seq[i].date) = day

\* C24: the collection-today binary sensor is None when no snapshot is held;
\* otherwise it is on when the snapshot's sequence for its fraction has an
\* entry dated today and off when it has none. Today is the day the wall
\* clock shows while the property is read: when midnight passes meanwhile,
\* either day is taken for it.
C24_OnExactlyWhenCollectedToday ==
    Answered("is_on") =>
        IF answer.snapshot = None THEN answer.value = None
        ELSE \E k \in 1..2 :
                answer.value =
                    Bool(HasEntryOn(SequenceOf(answer.snapshot, answer.fraction),
                                    date_of(answer.reads[k])))

-----------------------------------------------------------------------------
(* C27 *)

\* C27: whenever get_days_until returns an integer, the integer is not
\* negative, also when the day advances between the clock read of
\* get_next_disposal and the clock read of get_days_until.
C27_DaysUntilIsNeverNegative ==
    (Answered("get_days_until") /\ answer.value # None) => answer.value.days >= 0

-----------------------------------------------------------------------------
(* SpecIdentity: a coordinator constructed from the entry of one of two   *)
(* addresses refreshes against a remote that keeps a schedule per address *)

\* the entries a coordinator is constructed from
IdentityEntries ==
    {[unique_id |-> d.address_id,
      title |-> <<d.address_name, ", ", d.municipality>>,
      data |-> d,
      options |-> <<>>] :
        d \in {ENTRY_DATA,
               [address_id |-> "1f0e7d2a-5b3c-4a10-9c1d-2f6f0a7be001",
                address_name |-> "Storgata 1",
                municipality |-> "Oslo kommune"]}}

\* what the remote answers a details request with, by the address asked for
RemoteDetails ==
    [id \in {e.data.address_id : e \in IdentityEntries} |->
        {[kind |-> "timeout", status |-> 0, ctype |-> "", body |-> NoBody],
         [kind |-> "http", status |-> 404, ctype |-> "text/html", body |-> NoBody],
         [kind |-> "http", status |-> 200, ctype |-> "application/json",
          body |-> [disposals |-> List(<<>>)]],
         [kind |-> "http", status |-> 200, ctype |-> "application/json",
          body |-> [disposals |->
             List(<<[date |-> IsoString(IF id = ENTRY_DATA.address_id THEN 1 ELSE 2,
                                        0, ""),
                     fraction |-> IF id = ENTRY_DATA.address_id
                                  THEN "Restavfall" ELSE "Papir"]>>)]]}]

\* what `await client.get_disposals_by_fraction(self._address_id)` ends in
IdentityFetched ==
    [id \in DOMAIN RemoteDetails |->
        {get_disposals_by_fraction(id, resp) : resp \in RemoteDetails[id]}]

\* _async_update_data of the coordinator self, the client call ending in
\* fetched and the wall clock showing clock
update_data(self, fetched, clock) ==
    IF fetched.ok
    THEN Ok(RenovasjonData(self._address_id, self._address_name,
                           self._municipality, fetched.value, clock))
    ELSE LET err == fetched.raised
         IN  IF isinstance(err, "RenovasjonConnectionError")
             THEN Raise(UpdateFailed("Connection error: ", err))
             ELSE IF isinstance(err, "RenovasjonApiError")
             THEN Raise(UpdateFailed("API error: ", err))
             ELSE Raise(UpdateFailed("Unexpected error: ", err))

\* RenovasjonCoordinator(hass, entry) for the entry of either address
ConstructCoordinator ==
    /\ entries = <<>>
    /\ \E entry \in IdentityEntries :
          /\ entries' = <<entry>>
          /\ hass_data' = <<RenovasjonCoordinator(entry)>>
          /\ result' = [call |-> "RenovasjonCoordinator", entry_id |-> 1]
    /\ UNCHANGED <<now, response, data, last_update_success, last_exception,
                   returned, reader, answer, object_vars, entities, flows>>

\* one refresh of that coordinator: it asks for self._address_id and the
\* remote answers from the schedule of the address asked for
IdentityRefresh ==
    /\ entries # <<>>
    /\ LET self == hass_data[1]
       IN  \E fetched \in IdentityFetched[self._address_id] :
              LET r == update_data(self, fetched, now)
              IN  /\ result' = [call |-> "get_disposals_by_fraction",
                                address_id |-> self._address_id,
                                out |-> fetched]
                  /\ IF r.ok
                     THEN /\ data' = r.value
                          /\ returned' = r.value
                          /\ last_update_success' = TRUE
                          /\ last_exception' = None
                     ELSE /\ data' = data
                          /\ returned' = returned
                          /\ last_update_success' = FALSE
                          /\ last_exception' = r.raised
    /\ UNCHANGED <<now, response, reader, answer, object_vars, entities,
                   setup_vars>>

NextIdentity ==
    \/ ConstructCoordinator
    \/ IdentityRefresh
    \/ Tick

SpecIdentity == Init /\ [][NextIdentity]_vars

\* the mappings get_disposals_by_fraction returns for an address
MappingsOf(address_id) ==
    {fetched.value : fetched \in {f \in IdentityFetched[address_id] : f.ok}}

\* the held snapshot names the address of the entry and holds a mapping
\* fetched for it
SnapshotIsOfTheEntry ==
    data # None =>
        /\ entries # <<>>
        /\ data.address_id = entries[1].data.address_id
        /\ data.address_name = entries[1].data.address_name
        /\ data.municipality = entries[1].data.municipality
        /\ data.disposals_by_fraction \in MappingsOf(entries[1].data.address_id)

\* a refresh that publishes asked for the address of the entry and publishes
\* what it was answered
PublishesOwnAddress ==
    data' # data =>
        /\ result'.call = "get_disposals_by_fraction"
        /\ result'.address_id = entries[1].data.address_id
        /\ result'.out.ok
        /\ data'.disposals_by_fraction = result'.out.value

\* C25: whenever the coordinator holds a snapshot, its address_id,
\* address_name and municipality are those of the config entry the
\* coordinator was constructed from and its mapping is a result of
\* get_disposals_by_fraction for that address_id; no refresh publishes data
\* fetched for another address.
C25_SnapshotBelongsToTheEntry ==
    []SnapshotIsOfTheEntry /\ [][PublishesOwnAddress]_vars

\* the coordinator of the second address holds that address's schedule
C25_Witness ==
    /\ data # None
    /\ entries # <<>>
    /\ entries[1].data.address_id # ENTRY_DATA.address_id
    /\ data.address_id = entries[1].data.address_id
    /\ "Papir" \in fractions(data)

-----------------------------------------------------------------------------
(* SpecCycle: the timer refreshes the coordinator again and again while the *)
(* remote goes down and comes back; SpecCycleFair: the same with the timer  *)
(* scheduled fairly                                                          *)

\* the answers of the remote: it is down, it refuses, or it serves a schedule
CycleResponses ==
    {[kind |-> "timeout", status |-> 0, ctype |-> "", body |-> NoBody],
     [kind |-> "http", status |-> 500, ctype |-> "text/html", body |-> NoBody],
     [kind |-> "http", status |-> 200, ctype |-> "application/json",
      body |-> [disposals |->
                  List(<<[date |-> IsoString(1, 0, ""), fraction |-> "Restavfall"]>>)]],
     [kind |-> "http", status |-> 200, ctype |-> "application/json",
      body |-> [disposals |->
                  List(<<[date |-> IsoString(2, 0, ""), fraction |-> "Papir"]>>)]]}

\* what `await client.get_disposals_by_fraction(self._address_id)` ends in,
\* by the answer of the remote
CycleFetched ==
    [resp \in CycleResponses |->
        get_disposals_by_fraction(ENTRY_DATA.address_id, resp)]

\* the refreshes that have failed in a row, counted up to MaxFailures
FailedInARow ==
    IF result = None \/ result.out.ok THEN 0
    ELSE IF result.failed_before < MaxFailures THEN result.failed_before + 1
    ELSE MaxFailures

\* a timer that is not set again after a failed refresh
TimerFiresUntilFailure ==
    /\ last_update_success
    /\ RefreshTo(CycleFetched[response])
    /\ UNCHANGED <<now, response, reader, answer, object_vars, entities,
                   setup_vars>>

\* The timer of the coordinator fires: one refresh, answered by the remote
\* as it is now. The base class sets the timer again after every refresh,
\* failed or not.
TimerFires ==
    /\ \E fetched \in {CycleFetched[response]} :
       \E r \in {_async_update_data(fetched, now)} :
          /\ result' = [call |-> "get_disposals_by_fraction", out |-> fetched,
                        failed_before |-> FailedInARow]
          /\ IF r.ok
             THEN /\ data' = r.value
                  /\ returned' = r.value
                  /\ last_update_success' = TRUE
                  /\ last_exception' = None
             ELSE /\ data' = data
                  /\ returned' = returned
                  /\ last_update_success' = FALSE
                  /\ last_exception' = r.raised
    /\ UNCHANGED <<now, response, reader, answer, object_vars, entities,
                   setup_vars>>

\* the remote goes down, comes back or changes its schedule
RemoteChanges ==
    /\ \E resp \in CycleResponses \ {response} : response' = resp
    /\ UNCHANGED <<now, result, data, last_update_success, last_exception,
                   returned, reader, answer, object_vars, entities, setup_vars>>

InitCycle ==
    /\ response \in CycleResponses
    /\ InitCommon

NextCycle ==
    \/ TimerFires
    \/ RemoteChanges
    \/ Tick

SpecCycle == InitCycle /\ [][NextCycle]_vars

\* the timer is scheduled fairly: it is always set, so it fires
SpecCycleFair == SpecCycle /\ WF_vars(TimerFires)

\* the coordinator can refresh
CanRefresh == ENABLED TimerFires

\* the remote answers a details request successfully
RemoteAnswers == CycleFetched[response].ok

\* the coordinator holds the snapshot of the remote's present answer
HoldsPresentAnswer ==
    /\ data # None
    /\ last_update_success
    /\ result # None /\ result.out.ok
    /\ RemoteAnswers
    /\ data.disposals_by_fraction = CycleFetched[response].value

\* C26: in every state, also after any number of failed refreshes in a row,
\* the coordinator can refresh again; and with the timer scheduled fairly,
\* if the remote from some time on answers the details request successfully,
\* the coordinator holds, again and again, a snapshot built from the answer
\* of that time.
C26_RefreshCycleNeverEnds ==
    /\ []CanRefresh
    /\ (<>[]RemoteAnswers) => ([]<>HoldsPresentAnswer)

\* MaxFailures refreshes or more failed in a row, and the next one published
\* a snapshot
C26_Witness ==
    /\ result # None
    /\ result.out.ok
    /\ result.failed_before = MaxFailures
    /\ HoldsPresentAnswer

-----------------------------------------------------------------------------
(* C28 *)

\* the limits of 1 and more
PositiveLimits == {limit \in Limits : limit >= 1}

\* what get_next_disposal returned agrees with get_upcoming_disposals on the
\* snapshot at the instant of the call
NextAgreesWithUpcoming ==
    Answered("get_next_disposal") =>
        \A limit \in PositiveLimits :
            LET upcoming == get_upcoming_disposals(data, answer.fraction, limit,
                                                   answer.now)
            IN  IF answer.value = None THEN upcoming = <<>>
                ELSE upcoming # <<>> /\ upcoming[1] = answer.value

\* what get_upcoming_disposals returned agrees with get_next_disposal
UpcomingAgreesWithNext ==
    (Answered("get_upcoming_disposals") /\ answer.limit >= 1) =>
        LET next_disposal == get_next_disposal(data, answer.fraction, answer.now)
        IN  IF answer.value = <<>> THEN next_disposal = None
            ELSE answer.value[1] = next_disposal

\* what get_days_until returned, both its clock reads falling on one day, is
\* the day distance to the first element of get_upcoming_disposals
DaysUntilAgreesWithUpcoming ==
    (Answered("get_days_until") /\ date_of(answer.now) = date_of(answer.today)) =>
        \A limit \in PositiveLimits :
            LET upcoming == get_upcoming_disposals(data, answer.fraction, limit,
                                                   answer.now)
            IN  IF upcoming = <<>> THEN answer.value = None
                ELSE answer.value =
                        Days(date_of(upcoming[1].date) - date_of(answer.now))

\* C28: on one snapshot at one instant, get_next_disposal(f) is None exactly
\* when get_upcoming_disposals(f, limit) is empty for every limit >= 1,
\* otherwise it is the first element of get_upcoming_disposals(f, limit), and
\* get_days_until(f) is the day distance to that element.
C28_QueriesAgree ==
    /\ NextAgreesWithUpcoming
    /\ UpcomingAgreesWithNext
    /\ DaysUntilAgreesWithUpcoming

\* get_days_until answered 1 for a fraction with a past entry and two
\* upcoming ones, the first of them tomorrow
C28_Witness ==
    /\ Answered("get_days_until")
    /\ answer.now = answer.today
    /\ answer.value = Days(1)
    /\ Len(SequenceOf(data, answer.fraction)) = 3
    /\ Len(get_upcoming_disposals(data, answer.fraction, 2, answer.now)) = 2
    /\ get_upcoming_disposals(data, answer.fraction, 1, answer.now)
         = <<get_next_disposal(data, answer.fraction, answer.now)>>

-----------------------------------------------------------------------------
(* C29 *)

\* the entities a platform added stay the ones it added
EntitiesStay ==
    \A platform \in Platforms :
        entities[platform] # None => entities'[platform] = entities[platform]

\* an entity whose fraction the snapshot does not hold reads as nothing due
ReadsOfMissingFraction ==
    /\ (Answered("native_value") /\ answer.snapshot # None
          /\ answer.fraction \notin fractions(answer.snapshot))
          => answer.value = None
    /\ (Answered("is_on") /\ answer.snapshot # None
          /\ answer.fraction \notin fractions(answer.snapshot))
          => answer.value = Bool(FALSE)

\* C29: the entities a platform setup added are neither added to nor removed
\* from by a later refresh, so a fraction that first appears in a later
\* snapshot has no sensor; and a sensor whose fraction is missing from the
\* held snapshot reports None, its binary sensor off, and neither raises.
C29_EntitiesFixedAtSetup ==
    []ReadsOfMissingFraction /\ [][EntitiesStay]_vars

\* the sensors were set up for Restavfall alone; a later refresh left a
\* snapshot with Papir alone, and the Restavfall sensor read None from it
C29_Witness ==
    /\ Answered("native_value")
    /\ answer.fraction = "Restavfall"
    /\ answer.value = None
    /\ answer.snapshot = data
    /\ data # None
    /\ fractions(data) = {"Papir"}
    /\ EntityFractions("sensor") = {"Restavfall"}

-----------------------------------------------------------------------------
(* C30 *)

\* unique id and title of every entry are those of the address in its data
EntriesAreConsistent ==
    \A e \in DOMAIN entries :
        /\ entries[e].unique_id = entries[e].data.address_id
        /\ entries[e].title = <<entries[e].data.address_name, ", ",
                                entries[e].data.municipality>>

\* the reconfigure select step has returned an abort for success
ReconfiguredTo(res) ==
    /\ res.call = "async_step_reconfigure_select"
    /\ res.out # None
    /\ res.out = async_abort("reconfigure_successful")

\* A reconfigure that succeeds gives its entry the unique id, the title and
\* the data of the selected address together, and leaves the other entries;
\* a reconfigure step that returns a form or another abort, or that is
\* suspended, changes no entry.
ReconfigureReplacesAllOrNothing ==
    /\ ReconfiguredTo(result') =>
          LET e == flows[result'.flow].context.entry_id
              selected_address == find_address(result'.addresses,
                                               result'.user_input.address_id)
          IN  /\ selected_address # None
              /\ DOMAIN entries' = DOMAIN entries
              /\ entries'[e].unique_id = selected_address.id
              /\ entries'[e].title = entry_title(selected_address)
              /\ entries'[e].data = entry_data(selected_address)
              /\ \A other \in DOMAIN entries \ {e} : entries'[other] = entries[other]
    /\ (result'.source = "reconfigure" /\ ~ReconfiguredTo(result'))
          => entries' = entries

\* C30: after any sequence of setup and reconfigure flows every entry's
\* unique id is the address_id in its data (and its title that of the same
\* address); a successful reconfigure replaces unique id, title and the
\* identity triple together, and a reconfigure that ends in an error or an
\* abort leaves the entry as it was.
C30_UniqueIdIsTheAddressId ==
    []EntriesAreConsistent /\ [][ReconfigureReplacesAllOrNothing]_vars

\* a reconfigure has succeeded and its entry now carries the id, title and
\* data of the address selected in it
C30_Witness ==
    /\ result # None
    /\ ReconfiguredTo(result)
    /\ \E e \in DOMAIN entries :
          /\ entries[e].unique_id = result.user_input.address_id
          /\ entries[e].data.address_id = "1f0e7d2a"
          /\ entries[e].title = <<"Storgata 1", ", ", entries[e].data.municipality>>

====
